---- MODULE Spec2Model ----
(***************************************************************************)
(* Model of the URLs plugin of Ultros (src/plugins/urls/__init__.py):      *)
(* title resolution (parse_title), the message handler, the per-channel    *)
(* settings store, the `urls` command and the shortener cache.             *)
(***************************************************************************)
EXTENDS Integers, Sequences, FiniteSets, TLC

VARIABLES
    dns,        \* what socket.gethostbyname answers: hostname -> address or DnsFail
    web,        \* what a server answers to a GET: url -> response
    blacklist,  \* self.blacklist: sequence of glob patterns
    handlers,   \* self.handlers: registry key (domain) -> handler
    channels,   \* self.channels: protocol -> channel -> setting (nested dict)
    lock,       \* holder of the settings file's mutex (`with self.channels:`)
    th,         \* message_handler tasks of the thread pool
    cmd,        \* the command being run by the dispatching thread
    ops,        \* number of operations started so far
    cache,      \* rows of table urls: sequence of <<url, shortener, result>>
    shorteners, \* self.shorteners: name -> shortener function
    sh,         \* _shorten interactions of the database thread pool
    reg,        \* the last add_handler / add_shortener call and its outcome
    metrics,    \* the Metrics object: stored data, periodic task, firings
    mgmt,       \* the management commands run so far and what they did
    dialect     \* the dialectizer plugin: settings file, its mutex, callers

vars == <<dns, web, blacklist, handlers, channels, lock, th, cmd, ops,
          cache, shorteners, sh, reg, metrics, mgmt, dialect>>

\* the state of the URLs plugin
urlsVars == <<dns, web, blacklist, handlers, channels, lock, th, cmd, ops,
              cache, shorteners, sh, reg>>

\* the state outside the URLs plugin, which none of its steps touches
otherVars == <<metrics, mgmt, dialect>>

titleEnv == <<dns, web, blacklist, handlers, reg, otherVars>>
storeVars == <<channels, lock>>
shortenVars == <<cache, shorteners, sh>>

-----------------------------------------------------------------------------
(* Python values *)

None == [isNone |-> TRUE, val |-> <<>>]
Some(v) == [isNone |-> FALSE, val |-> v]

\* the text of an exception, str(e)
Str(e) == Some(<<e>>)

-----------------------------------------------------------------------------
(* URLs and hostnames.  A hostname is the sequence of its dot-separated     *)
(* labels; a URL is scheme://hostname/.                                     *)

HostA == <<"a">>
HostWwwA == <<"www", "a">>
HostB == <<"b">>
Hostnames == {HostA, HostWwwA, HostB}

Url(h) == [scheme |-> "http", host |-> h]
Urls == {Url(h) : h \in Hostnames}
NoUrl == [scheme |-> "", host |-> <<"">>]

\* urlparse.urlparse(url).hostname
hostname(url) == url.host

\* the domain left as it is, "www." prefix included
strip_www_keep(domain) == domain

\* domain[4:] if domain.startswith("www.")
strip_www(domain) ==
    IF Len(domain) >= 2 /\ domain[1] = "www" THEN Tail(domain) ELSE domain

-----------------------------------------------------------------------------
(* Addresses and the private ranges *)

DnsFail == <<>>

Cidr(a, b, c, d, p) == [net |-> <<a, b, c, d>>, prefix |-> p]

PrivateCidrs ==
    << Cidr(10, 0, 0, 0, 8), Cidr(0, 0, 0, 0, 8), Cidr(172, 16, 0, 0, 12),
       Cidr(192, 168, 0, 0, 16), Cidr(127, 0, 0, 0, 8) >>

Pow2(n) == CASE n = 0 -> 1 [] n = 1 -> 2 [] n = 2 -> 4 [] n = 3 -> 8
             [] n = 4 -> 16 [] n = 5 -> 32 [] n = 6 -> 64 [] n = 7 -> 128
             [] OTHER -> 256

\* the first `bits` bits of octet i of ip and net agree (bits in 0..8)
OctetMatch(ip, net, i, bits) ==
    ip[i] \div Pow2(8 - bits) = net[i] \div Pow2(8 - bits)

\* ip lies in the network cidr
InCidr(ip, cidr) ==
    \A i \in 1..4 :
        LET done == 8 * (i - 1)
            bits == IF cidr.prefix - done >= 8 THEN 8
                    ELSE IF cidr.prefix - done <= 0 THEN 0
                    ELSE cidr.prefix - done
        IN OctetMatch(ip, cidr.net, i, bits)

\* netaddr.all_matching_cidrs(ip, cidrs)
all_matching_cidrs(ip, cidrs) ==
    {i \in 1..Len(cidrs) : InCidr(ip, cidrs[i])}

PublicIP == <<172, 32, 0, 1>>
LoopbackIP == <<127, 0, 0, 1>>
IPSamples ==
    { <<10, 1, 2, 3>>, <<0, 0, 0, 1>>, <<172, 31, 255, 254>>,
      <<192, 168, 1, 1>>, LoopbackIP, PublicIP, <<192, 169, 0, 1>> }

\* socket.gethostbyname(domain): the address, or DnsFail when it raises
gethostbyname(domain) == dns[domain]


-----------------------------------------------------------------------------
(* Glob matching.  A pattern is a sequence of labels in which the label "*"  *)
(* stands for one or more labels of the subject.                             *)

RECURSIVE Glob(_, _)
Glob(s, p) ==
    IF p = <<>> THEN s = <<>>
    ELSE IF s = <<>> THEN FALSE
    ELSE IF Head(p) = "*"
         THEN Glob(Tail(s), Tail(p)) \/ Glob(Tail(s), p)
         ELSE Head(s) = Head(p) /\ Glob(Tail(s), Tail(p))

\* a blacklist pattern "*://<host glob>/*"; bad: a pattern fnmatch cannot handle
Pattern(h) == [bad |-> FALSE, host |-> h]
BadPattern == [bad |-> TRUE, host |-> <<>>]

\* fnmatch.fnmatch(url, pattern) of check_blacklist: "match", "nomatch", "raise"
fnmatch_url(url, pattern) ==
    IF pattern.bad THEN "raise"
    ELSE IF Glob(hostname(url), pattern.host) THEN "match" ELSE "nomatch"

RECURSIVE check_blacklist_from(_, _, _)
check_blacklist_from(bl, i, url) ==
    IF i > Len(bl) THEN FALSE
    ELSE LET m == fnmatch_url(url, bl[i])
         IN IF m = "match" THEN TRUE
            ELSE IF m = "raise" THEN FALSE
            ELSE check_blacklist_from(bl, i + 1, url)

\* URLsPlugin.check_blacklist
check_blacklist(url) == check_blacklist_from(blacklist, 1, url)

-----------------------------------------------------------------------------
(* Pages *)

RedirectCodes == {301, 302, 303, 307, 308}
\* the codes urllib2's HTTPRedirectHandler follows
FollowedCodes == {301, 302, 303, 307}

HtmlType == <<"text/html">>
TitleT == <<"T">>
TitleH == <<"H">>

\* code 0: the connection is refused or times out
Page(code, location, ctype, title) ==
    [code |-> code, location |-> location, ctype |-> ctype, title |-> title]
OkPage == Page(200, NoUrl, HtmlType, Some(TitleT))
RedirectTo(u) == Page(302, u, <<>>, None)
NotFound == Page(404, NoUrl, HtmlType, None)
Refused == Page(0, NoUrl, <<>>, None)
\* code -1: the server accepts the connection and never answers
Silent == Page(-1, NoUrl, <<>>, None)

\* a Content-Type header is the sequence of its ";"-separated parts
content_types ==
    { "text/html", "text/webviewhtml", "message/rfc822",
      "text/x-server-parsed-html", "application/xhtml+xml" }

-----------------------------------------------------------------------------
(* urllib2.urlopen with the default opener: the request goes to the url's   *)
(* host, 301/302/303/307 are followed inside urlopen, any other non-2xx      *)
(* status raises HTTPError, an unresolvable or unreachable host raises       *)
(* URLError.  sent: the URLs a request was sent to.                          *)

max_repeats == 4
max_redirections == 10

Visited(v) == {u \in DOMAIN v : v[u] > 0}

RECURSIVE http_open(_, _, _, _, _, _)
http_open(d, w, url, visited, first, sent) ==
    IF d[hostname(url)] = DnsFail
    THEN [ok |-> FALSE, err |-> "URLError", url |-> url, page |-> Refused,
          sent |-> sent]
    ELSE
    LET page == w[Url(hostname(url))]  \* a host serves http and https alike
        sent2 == sent \cup {url}
    IN  IF page.code = 0
        THEN [ok |-> FALSE, err |-> "URLError", url |-> url, page |-> page,
              sent |-> sent2]
        ELSE IF page.code = -1
        \* no timeout is given to urlopen: the read never returns
        THEN [ok |-> FALSE, err |-> "blocked", url |-> url, page |-> page,
              sent |-> sent2]
        ELSE IF page.code \in FollowedCodes
        THEN LET newurl == page.location
             IN IF /\ ~first
                   /\ \/ visited[newurl] >= max_repeats
                      \/ Cardinality(Visited(visited)) >= max_redirections
                THEN [ok |-> FALSE, err |-> "HTTPError", url |-> url,
                      page |-> page, sent |-> sent2]
                ELSE http_open(d, w, newurl,
                               [visited EXCEPT ![newurl] = @ + 1], FALSE, sent2)
        ELSE IF page.code >= 200 /\ page.code < 300
        THEN [ok |-> TRUE, err |-> "", url |-> url, page |-> page,
              sent |-> sent2]
        ELSE [ok |-> FALSE, err |-> "HTTPError", url |-> url, page |-> page,
              sent |-> sent2]

urlopen(url) == http_open(dns, web, url, [u \in Urls |-> 0], TRUE, {})


-----------------------------------------------------------------------------
(* URLsPlugin.parse_title.  The result is a record: ret is what the call     *)
(* returns, sent the URLs an HTTP request went to, called the handler        *)
(* invocations <<registry key, url>>.                                        *)

Ret(t, d) == [kind |-> "pair", title |-> t, domain |-> d]
\* a bare `return`: the call returns None, which is no pair
BareReturn == [kind |-> "bare", title |-> None, domain |-> None]
\* no call has returned yet
NoRet == [kind |-> "", title |-> None, domain |-> None]
\* the call is inside urlopen and never returns
Blocked == [kind |-> "blocked", title |-> None, domain |-> None]
Out(ret, sent, called) == [ret |-> ret, sent |-> sent, called |-> called]

\* lines 476-480: except Exception as e
on_exception(e, domain, sent, called) ==
    IF e = "not viewing html"
    THEN Out(Ret(None, None), sent, called)
    ELSE Out(Ret(Str(e), domain), sent, called)

\* the check with 172.16.0.0/16 in the place of 172.16.0.0/12
matches_private_narrow(ip) ==
    all_matching_cidrs(ip, << Cidr(10, 0, 0, 0, 8), Cidr(0, 0, 0, 0, 8),
                              Cidr(172, 16, 0, 0, 16),
                              Cidr(192, 168, 0, 0, 16),
                              Cidr(127, 0, 0, 0, 8) >>) # {}

\* lines 361-365 and 423-428: the address matches one of the private ranges
matches_private(ip) == all_matching_cidrs(ip, PrivateCidrs) # {}

\* a registered handler called on a url: a title, a falsy value or "raise"
HandlerKinds == {"title", "falsy", "raise"}
handler_result(kind) ==
    IF kind = "title" THEN Some(TitleH) ELSE None

IsSpace(tok) == tok \in {" ", "\n", "\t"}

RECURSIVE lstrip(_)
lstrip(s) == IF s # <<>> /\ IsSpace(Head(s)) THEN lstrip(Tail(s)) ELSE s

RECURSIVE rstrip(_)
rstrip(s) ==
    IF s # <<>> /\ IsSpace(s[Len(s)]) THEN rstrip(SubSeq(s, 1, Len(s) - 1))
    ELSE s

\* title.strip()
strip(s) == rstrip(lstrip(s))

\* re.sub("\s+", " ", title)
RECURSIVE collapse(_)
collapse(s) ==
    IF s = <<>> THEN <<>>
    ELSE IF IsSpace(Head(s))
         THEN <<" ">> \o collapse(lstrip(s))
         ELSE <<Head(s)>> \o collapse(Tail(s))

\* lines 444-475: the terminal response
read_response(r, domain, sent, called) ==
    IF r.page.code \in RedirectCodes
    THEN \* headers is a list: headers["location"] raises
         on_exception("TypeError", Some(domain), sent, called)
    ELSE IF r.page.ctype = <<>>
    THEN on_exception("KeyError", Some(domain), sent, called)
    ELSE IF Head(r.page.ctype) \notin content_types
    THEN Out(Ret(None, None), sent, called)
    ELSE IF ~r.page.title.isNone /\ r.page.title.val # <<>>
    THEN Out(Ret(Some(collapse(strip(r.page.title.val))), Some(domain)),
             sent, called)
    ELSE Out(Ret(None, None), sent, called)

\* lines 413-442: the URL the response came from is on another domain
after_redirect(r, use_handler, sent, called) ==
    LET new_url == r.url
        domain == hostname(new_url)
        ip == gethostbyname(domain)
        stripped == strip_www(domain)
        called2 == called \cup {<<stripped, new_url>>}
    IN  IF check_blacklist(new_url) THEN Out(BareReturn, sent, called)
        ELSE IF ip = DnsFail
        THEN on_exception("gaierror", Some(domain), sent, called)
        ELSE IF matches_private(ip) THEN Out(Ret(None, None), sent, called)
        ELSE IF stripped \in DOMAIN handlers /\ use_handler
        THEN IF handlers[stripped] = "title"
             THEN Out(Ret(handler_result("title"), None), sent, called2)
             ELSE read_response(r, stripped, sent, called2)
        ELSE read_response(r, stripped, sent, called)

\* lines 383-411: the request and the response's final URL
fetch(url, domain, use_handler, called) ==
    LET r == urlopen(url)
    IN  IF r.err = "blocked" THEN Out(Blocked, r.sent, called)
        ELSE IF ~r.ok THEN on_exception(r.err, Some(domain), r.sent, called)
        ELSE IF domain # hostname(r.url)
        THEN after_redirect(r, use_handler, r.sent, called)
        ELSE read_response(r, hostname(r.url), r.sent, called)

\* the lookup where a handler that raises makes the whole call fail
run_handler_failing(url, domain, use_handler) ==
    IF use_handler /\ domain \in DOMAIN handlers
       /\ handlers[domain] = "raise"
    THEN on_exception("handler error", Some(domain), {}, {<<domain, url>>})
    ELSE fetch(url, domain, use_handler, {})

\* lines 372-381: the handler registered for the domain
run_handler(url, domain, use_handler) ==
    LET matching == {p \in DOMAIN handlers : Glob(domain, p)}
    IN  IF ~use_handler \/ matching = {} \/ domain \notin DOMAIN handlers
        THEN fetch(url, domain, use_handler, {})
        ELSE IF handlers[domain] = "title"
        THEN Out(Ret(handler_result("title"), None), {}, {<<domain, url>>})
        ELSE fetch(url, domain, use_handler, {<<domain, url>>})

parse_title(url, use_handler) ==
    LET domain == hostname(url)
        ip == gethostbyname(domain)
    IN  IF domain = <<>>
        \* the hostname is None: gethostbyname(None) raises
        THEN on_exception("TypeError", None, {}, {})
        ELSE IF ip = DnsFail THEN on_exception("gaierror", Some(domain), {}, {})
        ELSE IF matches_private(ip) THEN Out(Ret(None, None), {}, {})
        ELSE run_handler(url, strip_www(domain), use_handler)


-----------------------------------------------------------------------------
(* The settings store self.channels: a dict protocol -> channel -> setting  *)

Protocols == {"irc", "xmpp"}
ChannelNames == {"#a", "#b"}
Keys == Protocols \X ChannelNames

Setting(last, status, shortener) ==
    [last |-> last, status |-> status, shortener |-> shortener]

\* protocol.name in self.channels
has_protocol(ch, p) == p \in DOMAIN ch

\* target.name in self.channels[protocol.name]
has_channel(ch, p, c) == c \in DOMAIN ch[p]

HasSetting(ch, p, c) == has_protocol(ch, p) /\ has_channel(ch, p, c)

\* self.channels[protocol.name] = {name: setting}
put_protocol(ch, p, c, setting) ==
    [q \in DOMAIN ch \cup {p} |->
        IF q = p THEN [d \in {c} |-> setting] ELSE ch[q]]

\* self.channels[protocol.name][name] = setting
put_channel(ch, p, c, setting) ==
    [ch EXCEPT ![p] = [d \in DOMAIN @ \cup {c} |->
                          IF d = c THEN setting ELSE @[d]]]

\* self.channels[protocol.name][name]["last"] = url
set_last(ch, p, c, url) == [ch EXCEPT ![p][c].last = url]

\* the write that flips the stored status whatever the value asked for
set_status_toggle(ch, p, c, value) ==
    [ch EXCEPT ![p][c].status = IF @ = "on" THEN "off" ELSE "on"]

\* self.channels[protocol.name][name]["status"] = value
set_status(ch, p, c, value) == [ch EXCEPT ![p][c].status = value]

\* self.channels[protocol.name][name]["shortener"] = value
set_shortener(ch, p, c, value) == [ch EXCEPT ![p][c].shortener = value]

\* str.lower() on the words the commands see
lower(s) ==
    CASE s = "ON" -> "on"
      [] s = "OFF" -> "off"
      [] s = "SET" -> "set"
      [] s = "TinyURL" -> "tinyurl"
      [] s = "IsGd" -> "isgd"
      [] s = "HELP" -> "help"
      [] s = "Chef" -> "chef"
      [] s = "Text/HTML" -> "text/html"
      [] s = "HTTP://" -> "http://"
      [] OTHER -> s

NoTask == "none"
Threads == {"t1", "t2"}
CmdTask == "cmd"

\* bound on the operations (messages and commands) started in one run
MaxOps == 2


-----------------------------------------------------------------------------
(* URLsPlugin.message_handler, one task of the thread pool per message.     *)
(* A message is the sequence of its space-separated words.  A word, and the *)
(* text of a URL, is a sequence of tokens: a scheme with its "://", a label *)
(* of a hostname (the dots between labels are left out), "/", or other      *)
(* text ("x").                                                              *)

HostLabels == {"www", "a", "b"}

\* s.lower() on a word
lower_word(word) == [i \in 1..Len(word) |-> lower(word[i])]

\* s.find(tok): the index of the first occurrence, from 1; 0 for Python's -1
find(word, tok) ==
    LET hits == {i \in 1..Len(word) : word[i] = tok}
    IN  IF hits = {} THEN 0
        ELSE CHOOSE i \in hits : \A j \in hits : i <= j

\* lines 149-157: the URL of a word, <<>> when it holds no scheme
extract_url(word) ==
    LET first == find(lower_word(word), "http://")
        pos == IF first = 0 THEN find(lower_word(word), "https://")
               ELSE first
    IN  IF pos > 0 THEN SubSeq(word, pos, Len(word)) ELSE <<>>

\* line 159: url in ["http://", "https://"]
BareSchemes == { <<"http://">>, <<"https://">> }

\* urlparse.urlparse(url): the scheme in lower case and the hostname, the
\* labels between the scheme and the path (<<>> for a hostname of None)
urlparse(text) ==
    LET rest == Tail(text)
        stops == {i \in 1..Len(rest) : rest[i] \notin HostLabels}
        end == IF stops = {} THEN Len(rest)
               ELSE (CHOOSE i \in stops : \A j \in stops : i <= j) - 1
    IN  [scheme |-> IF lower(Head(text)) = "https://" THEN "https"
                    ELSE "http",
         host |-> SubSeq(rest, 1, end)]

\* the text of a URL
unparse(url) ==
    <<IF url.scheme = "https" THEN "https://" ELSE "http://">> \o url.host

\* a word: text followed by a URL
Word(pre, url) == pre \o unparse(url)

ChannelTarget(p, c) == [kind |-> "channel", proto |-> p, name |-> c]
UserTarget(p) == [kind |-> "user", proto |-> p, name |-> "nick"]
OtherTarget(p) == [kind |-> "other", proto |-> p, name |-> "x"]
NoTarget == [kind |-> "", proto |-> "", name |-> ""]

\* the iterator of `for pattern in self.handlers`: the size of the dict when
\* the loop started and the keys not yet yielded
NoIter == [used |-> 0, left |-> {}]

\* etype and msg: the type of the event and the words of its message; denied:
\* perm_handler.check refused both the sender and the default group
IdleTask ==
    [pc |-> "idle", target |-> NoTarget, words |-> <<>>, word |-> <<>>,
     raw |-> <<>>, url |-> NoUrl,
     ret |-> NoRet, out |-> <<>>, sent |-> {}, called |-> {}, caught |-> {},
     etype |-> "", msg |-> <<>>, iter |-> NoIter, denied |-> FALSE]

\* pc "filtered": the event was not handed to the handler
Finished(pc) == pc \in {"idle", "done", "crashed", "filtered"}

\* lines 85-91: the filter given to add_callback
message_event_filter(type_, target) ==
    \/ type_ = "message"
    \/ target.kind = "channel"
    \/ target.kind = "user"

\* the response that never quotes the title nor names the domain
Response_title_only(to, title, domain) == [to |-> to, text |-> title.val]

\* lines 205-208 and 215-218: the text handed to respond, "\"%s\" at %s" %
\* (title, domain) or the title alone, and the object whose respond is called
Response(to, title, domain) ==
    [to |-> to,
     text |-> IF domain.isNone THEN title.val
              ELSE <<"\"">> \o title.val \o <<"\" at ">> \o domain.val]

\* the handler run by the dispatching thread itself: an event is handled
\* only when no other is being handled
pool_free_sync(t) == \A u \in Threads : Finished(th[u].pc)

\* line 123, @run_async_threadpool: the handler of an event runs in a
\* thread of the pool that is free, whatever the other threads do
pool_free(t) == Finished(th[t].pc)

\* the handler that goes on whatever the permission checks answered
permitted_always(own, deflt) == TRUE

\* lines 130-136: `allowed` after the check for the sender and, when that
\* one refused, the check for the default group (source None)
permitted(own, deflt) == own \/ deflt

\* lines 95-96 and 124-139: a MessageReceived event arrives; the handler is
\* called when the filter accepts the event, and checks the permission.  own
\* and deflt are the answers of perm_handler.check for the sender and for
\* the default group
MH_Event(t, types, msgs, targets) ==
    /\ pool_free(t)
    /\ ops < MaxOps
    /\ \E ty \in types, m \in msgs, tg \in targets,
          own \in BOOLEAN, deflt \in BOOLEAN :
          th' = [th EXCEPT ![t] =
                    IF ~message_event_filter(ty, tg)
                    THEN [IdleTask EXCEPT !.pc = "filtered", !.etype = ty,
                                          !.target = tg]
                    ELSE IF permitted(own, deflt)
                    THEN [IdleTask EXCEPT !.pc = "word", !.etype = ty,
                                          !.target = tg, !.words = m,
                                          !.msg = m,
                                          !.denied = ~own /\ ~deflt]
                    ELSE [IdleTask EXCEPT !.pc = "done", !.etype = ty,
                                          !.target = tg,
                                          !.denied = ~own /\ ~deflt]]
    /\ ops' = ops + 1
    /\ UNCHANGED <<titleEnv, storeVars, cmd, shortenVars>>

\* the events of type "message"
MH_Receive(t, msgs, targets) == MH_Event(t, {"message"}, msgs, targets)

\* lines 148-177: the next word of the message; its URL is extracted,
\* checked against the blacklist, caught and resolved.  word is the word
\* examined and raw the text extracted from it; url, ret, sent and called
\* are those of this word's parse_title call
MH_Word(t) ==
    LET k == th[t]
        word == Head(k.words)
        none(raw) == [k EXCEPT !.word = word, !.raw = raw, !.url = NoUrl,
                               !.ret = NoRet, !.sent = {}, !.called = {}]
        seen(raw, url, r) ==
            [k EXCEPT !.word = word, !.raw = raw, !.url = url,
                      !.ret = r.ret, !.sent = r.sent, !.called = r.called,
                      !.caught = IF k.target.kind = "channel"
                                 THEN @ \cup {url} ELSE @]
    IN  /\ k.pc = "word"
        /\ IF k.words = <<>>
           THEN th' = [th EXCEPT ![t].pc = "done"]
           ELSE \E raw \in {extract_url(word)} :
                IF raw = <<>>
                THEN th' = [th EXCEPT ![t] = [none(raw) EXCEPT
                                                 !.words = Tail(@)]]
                ELSE IF raw \in BareSchemes
                THEN th' = [th EXCEPT ![t] = [none(raw) EXCEPT !.pc = "done"]]
                ELSE \E url \in {urlparse(raw)} :
                IF check_blacklist(url)
                THEN th' = [th EXCEPT ![t] = [none(raw) EXCEPT !.pc = "done"]]
                ELSE \E r \in {parse_title(url, TRUE)} :
                th' = [th EXCEPT ![t] =
                   IF r.ret.kind = "blocked"
                   \* line 175 never returns: the task stays in the fetch
                   THEN [seen(raw, url, r) EXCEPT !.pc = "fetching"]
                   ELSE IF r.ret.kind = "bare"
                   \* title, domain = None raises TypeError
                   THEN [seen(raw, url, r) EXCEPT !.pc = "crashed"]
                   ELSE IF k.target.kind = "channel"
                   THEN [seen(raw, url, r) EXCEPT !.pc = "check_proto"]
                   ELSE IF k.target.kind = "user"
                   THEN [seen(raw, url, r) EXCEPT !.pc = "respond"]
                   ELSE [seen(raw, url, r) EXCEPT !.words = Tail(@)]]
        /\ UNCHANGED <<titleEnv, storeVars, cmd, ops, shortenVars>>

\* line 180: if protocol.name not in self.channels
MH_CheckProto(t) ==
    /\ th[t].pc = "check_proto"
    /\ th' = [th EXCEPT ![t].pc =
                 IF has_protocol(channels, th[t].target.proto)
                 THEN "check_chan" ELSE "init_proto"]
    /\ UNCHANGED <<titleEnv, storeVars, cmd, ops, shortenVars>>

\* `with self.channels:` entered: the store's mutex is taken
MH_Acquire(t) ==
    /\ th[t].pc \in {"init_proto", "init_chan", "set_last"}
    /\ lock = NoTask
    /\ lock' = t
    /\ UNCHANGED <<titleEnv, channels, th, cmd, ops, shortenVars>>

\* lines 181-187
MH_InitProto(t) ==
    /\ th[t].pc = "init_proto"
    /\ lock = t
    /\ channels' = put_protocol(channels, th[t].target.proto,
                                th[t].target.name,
                                Setting(th[t].url, "on", "tinyurl"))
    /\ lock' = NoTask
    /\ th' = [th EXCEPT ![t].pc = "check_chan"]
    /\ UNCHANGED <<titleEnv, cmd, ops, shortenVars>>

\* line 188: if target.name not in self.channels[protocol.name]
MH_CheckChan(t) ==
    /\ th[t].pc = "check_chan"
    /\ th' = [th EXCEPT ![t].pc =
                 IF has_channel(channels, th[t].target.proto,
                                th[t].target.name)
                 THEN "set_last" ELSE "init_chan"]
    /\ UNCHANGED <<titleEnv, storeVars, cmd, ops, shortenVars>>

\* lines 189-195
MH_InitChan(t) ==
    /\ th[t].pc = "init_chan"
    /\ lock = t
    /\ channels' = put_channel(channels, th[t].target.proto,
                               th[t].target.name,
                               Setting(th[t].url, "on", "tinyurl"))
    /\ lock' = NoTask
    /\ th' = [th EXCEPT ![t].pc = "respond"]
    /\ UNCHANGED <<titleEnv, cmd, ops, shortenVars>>

\* lines 196-199; a missing key raises KeyError and the mutex is released
MH_SetLast(t) ==
    /\ th[t].pc = "set_last"
    /\ lock = t
    /\ lock' = NoTask
    /\ IF has_channel(channels, th[t].target.proto, th[t].target.name)
       THEN /\ channels' = set_last(channels, th[t].target.proto,
                                    th[t].target.name, th[t].url)
            /\ th' = [th EXCEPT ![t].pc = "respond"]
       ELSE /\ channels' = channels
            /\ th' = [th EXCEPT ![t].pc = "crashed"]
    /\ UNCHANGED <<titleEnv, cmd, ops, shortenVars>>

\* lines 200-218: the response, then the next word
MH_Respond(t) ==
    LET k == th[t]
        to == IF k.target.kind = "channel" THEN "target" ELSE "source"
    IN  /\ k.pc = "respond"
        /\ th' = [th EXCEPT ![t] =
              IF k.ret.title.isNone THEN [k EXCEPT !.pc = "done"]
              ELSE [k EXCEPT !.pc = "word", !.words = Tail(@),
                             !.out = Append(@, Response(to, k.ret.title,
                                                        k.ret.domain))]]
        /\ UNCHANGED <<titleEnv, storeVars, cmd, ops, shortenVars>>


-----------------------------------------------------------------------------
(* parse_title step by step through its loop over the handler registry,     *)
(* for the runs where other plugins register handlers meanwhile.  A dict    *)
(* iterator raises RuntimeError from next() when the size of the dict is    *)
(* not the one it had when the loop started.                                *)

\* the word task t examines holds a URL that reaches the loop of line 373
EntersLoop(t) ==
    LET k == th[t]
        raw == extract_url(Head(k.words))
        url == urlparse(raw)
    IN  /\ k.pc = "word"
        /\ k.words # <<>>
        /\ raw \notin BareSchemes \cup {<<>>}
        /\ ~check_blacklist(url)
        /\ hostname(url) # <<>>
        /\ gethostbyname(hostname(url)) # DnsFail
        /\ ~matches_private(gethostbyname(hostname(url)))

\* lines 148-175 and 353-373: the URL is extracted and resolved, and the
\* loop takes its iterator
PT_Enter(t) ==
    LET k == th[t]
        word == Head(k.words)
        raw == extract_url(word)
    IN  /\ EntersLoop(t)
        /\ th' = [th EXCEPT ![t] =
              [k EXCEPT !.pc = "iter", !.word = word, !.raw = raw,
                        !.url = urlparse(raw), !.ret = NoRet, !.sent = {},
                        !.called = {},
                        !.iter = [used |-> Cardinality(DOMAIN handlers),
                                  left |-> DOMAIN handlers]]]
        /\ UNCHANGED <<titleEnv, storeVars, cmd, ops, shortenVars>>

\* the task goes on to line 177 with what parse_title returned
Returned(k, r) ==
    [k EXCEPT !.pc = "respond", !.ret = r.ret, !.sent = r.sent,
              !.called = r.called, !.iter = NoIter]

\* lines 373-381 and 383-480: one next() of the iterator and the body of
\* the loop for the key it yields; when it is exhausted, the fetch
PT_Next(t) ==
    LET k == th[t]
        domain == strip_www(hostname(k.url))
    IN  /\ k.pc = "iter"
        /\ IF Cardinality(DOMAIN handlers) # k.iter.used
           THEN th' = [th EXCEPT ![t] =
                   Returned(k, on_exception("RuntimeError", Some(domain),
                                            {}, k.called))]
           ELSE IF k.iter.left = {}
           THEN \E r \in {fetch(k.url, domain, TRUE, k.called)} :
                   th' = [th EXCEPT ![t] = Returned(k, r)]
           ELSE \E p \in k.iter.left :
                   th' = [th EXCEPT ![t] =
                      IF ~Glob(domain, p) \/ domain \notin DOMAIN handlers
                      THEN [k EXCEPT !.iter.left = @ \ {p}]
                      ELSE IF handlers[domain] = "title"
                      THEN Returned(k, Out(Ret(handler_result("title"), None),
                                           {}, {<<domain, k.url>>}))
                      ELSE [k EXCEPT !.iter.left = @ \ {p},
                                     !.called = @ \cup {<<domain, k.url>>}]]
        /\ UNCHANGED <<titleEnv, storeVars, cmd, ops, shortenVars>>

-----------------------------------------------------------------------------
(* URLsPlugin.urls_command, run by the thread that dispatches commands      *)

\* prev: the command completed before the current one and the store it
\* left when the current one started
NoCmd == [source |-> NoTarget, op |-> "", value |-> "", ok |-> FALSE,
          store |-> [x \in {} |-> {}]]

\* url, handler, called: the argument of `shorten`, the shortener it chose
\* and whether it called shorten_url
IdleCmd ==
    [pc |-> "idle", source |-> NoTarget, op |-> "", value |-> "",
     out |-> <<>>, prev |-> NoCmd, url |-> NoUrl, handler |-> "",
     called |-> FALSE]

Started(src, args) ==
    [IdleCmd EXCEPT !.source = src,
                    !.prev = [source |-> cmd.source, op |-> cmd.op,
                              value |-> cmd.value, ok |-> cmd.pc = "done",
                              store |-> channels]]

DefaultSetting == Setting(NoUrl, "on", "tinyurl")

\* lines 225-241: the arguments
UC_Start(sources, argss) ==
    /\ Finished(cmd.pc)
    /\ ops < MaxOps
    /\ \E src \in sources, args \in argss :
          cmd' = IF src.kind # "channel"
                 THEN [Started(src, args) EXCEPT
                          !.pc = "done", !.out = <<"channel only">>]
                 ELSE IF Len(args) < 2
                 THEN [Started(src, args) EXCEPT
                          !.pc = "done", !.out = <<"usage">>]
                 ELSE [Started(src, args) EXCEPT
                          !.pc = "check_proto", !.op = lower(args[1]),
                          !.value = lower(args[2])]
    /\ ops' = ops + 1
    /\ UNCHANGED <<titleEnv, storeVars, th, shortenVars>>

\* line 243: if protocol.name not in self.channels
UC_CheckProto ==
    /\ cmd.pc = "check_proto"
    /\ cmd' = [cmd EXCEPT !.pc = IF has_protocol(channels, cmd.source.proto)
                                 THEN "check_chan" ELSE "init_proto"]
    /\ UNCHANGED <<titleEnv, storeVars, th, ops, shortenVars>>

\* `with self.channels:` entered: the store's mutex is taken
UC_Acquire ==
    /\ cmd.pc \in {"init_proto", "init_chan", "write_status",
                   "write_shortener", "sc_fix"}
    /\ lock = NoTask
    /\ lock' = CmdTask
    /\ UNCHANGED <<titleEnv, channels, th, cmd, ops, shortenVars>>

\* lines 244-251
UC_InitProto ==
    /\ cmd.pc = "init_proto"
    /\ lock = CmdTask
    /\ channels' = put_protocol(channels, cmd.source.proto, cmd.source.name,
                                DefaultSetting)
    /\ lock' = NoTask
    /\ cmd' = [cmd EXCEPT !.pc = "check_chan"]
    /\ UNCHANGED <<titleEnv, th, ops, shortenVars>>

\* line 252: if source.name not in self.channels[protocol.name]
UC_CheckChan ==
    /\ cmd.pc = "check_chan"
    /\ cmd' = [cmd EXCEPT !.pc =
                  IF has_channel(channels, cmd.source.proto, cmd.source.name)
                  THEN "dispatch" ELSE "init_chan"]
    /\ UNCHANGED <<titleEnv, storeVars, th, ops, shortenVars>>

\* lines 253-258
UC_InitChan ==
    /\ cmd.pc = "init_chan"
    /\ lock = CmdTask
    /\ channels' = put_channel(channels, cmd.source.proto, cmd.source.name,
                               DefaultSetting)
    /\ lock' = NoTask
    /\ cmd' = [cmd EXCEPT !.pc = "dispatch"]
    /\ UNCHANGED <<titleEnv, th, ops, shortenVars>>

\* the test that takes every name for a registered shortener
known_shortener_any(value) == TRUE

\* line 273: if value.lower() in self.shorteners
known_shortener(value) == lower(value) \in DOMAIN shorteners

\* lines 260-263, 272-273, 279-282: the operation and its value are checked
UC_Dispatch ==
    /\ cmd.pc = "dispatch"
    /\ cmd' = IF cmd.op = "set"
              THEN IF cmd.value \notin {"on", "off"}
                   THEN [cmd EXCEPT !.pc = "done", !.out = <<"usage set">>]
                   ELSE [cmd EXCEPT !.pc = "write_status"]
              ELSE IF cmd.op = "shortener"
              THEN IF known_shortener(cmd.value)
                   THEN [cmd EXCEPT !.pc = "write_shortener"]
                   ELSE [cmd EXCEPT !.pc = "done",
                                    !.out = <<"unknown shortener">>]
              ELSE [cmd EXCEPT !.pc = "done", !.out = <<"unknown operation">>]
    /\ UNCHANGED <<titleEnv, storeVars, th, ops, shortenVars>>

\* lines 264-271; a missing key raises KeyError and the mutex is released
UC_WriteStatus ==
    /\ cmd.pc = "write_status"
    /\ lock = CmdTask
    /\ lock' = NoTask
    /\ IF has_channel(channels, cmd.source.proto, cmd.source.name)
       THEN /\ channels' = set_status(channels, cmd.source.proto,
                                      cmd.source.name, cmd.value)
            /\ cmd' = [cmd EXCEPT !.pc = "done", !.out = <<"turned">>]
       ELSE /\ channels' = channels
            /\ cmd' = [cmd EXCEPT !.pc = "crashed"]
    /\ UNCHANGED <<titleEnv, th, ops, shortenVars>>

\* lines 274-278
UC_WriteShortener ==
    /\ cmd.pc = "write_shortener"
    /\ lock = CmdTask
    /\ lock' = NoTask
    /\ IF has_channel(channels, cmd.source.proto, cmd.source.name)
       THEN /\ channels' = set_shortener(channels, cmd.source.proto,
                                         cmd.source.name, lower(cmd.value))
            /\ cmd' = [cmd EXCEPT !.pc = "done", !.out = <<"shortener set">>]
       ELSE /\ channels' = channels
            /\ cmd' = [cmd EXCEPT !.pc = "crashed"]
    /\ UNCHANGED <<titleEnv, th, ops, shortenVars>>

-----------------------------------------------------------------------------
(* URLsPlugin.shorten_url and _shorten.  Each call is one interaction of    *)
(* the database pool: it runs _shorten in a pool thread, in a transaction   *)
(* of its own that is committed when _shorten returns and rolled back when  *)
(* it raises.  Table urls has no key and no uniqueness constraint           *)
(* (reload, lines 103-106).                                                 *)

ShortenThreads == {"s1", "s2"}
ShortUrls == {"s1", "s2"}

\* bound on the rows of table urls
MaxRows == 2

Row(url, shortener, result) ==
    [url |-> url, shortener |-> shortener, result |-> result]

\* SELECT * FROM urls WHERE url=? AND shortener=?
select_rows(rows, url, shortener) ==
    SelectSeq(rows, LAMBDA r : r.url = url /\ r.shortener = shortener)

RowCount(rows, url, shortener) == Len(select_rows(rows, url, shortener))

\* the lookup with the handler name as given, not lowered
cache_lookup_raw(rows, url, handler) == select_rows(rows, url, handler)

\* lines 483-485: txn.execute(SELECT ..., (url, handler.lower()))
cache_lookup(rows, url, handler) == select_rows(rows, url, lower(handler))

NoCall == [url |-> NoUrl, handler |-> "", result |-> None, ok |-> FALSE]

\* prev: the call this thread completed before the current one
IdleShorten ==
    [pc |-> "idle", url |-> NoUrl, handler |-> "", result |-> None,
     invoked |-> FALSE, prev |-> NoCall]

\* lines 500-504: shorten_url hands _shorten to the pool
SH_Start(s, urls, names) ==
    /\ Finished(sh[s].pc) \/ sh[s].pc = "failed"
    /\ Len(cache) < MaxRows
    /\ \E u \in urls, h \in names :
          sh' = [sh EXCEPT ![s] =
                    [IdleShorten EXCEPT
                        !.pc = "select", !.url = u, !.handler = h,
                        !.prev = [url |-> sh[s].url,
                                  handler |-> sh[s].handler,
                                  result |-> sh[s].result,
                                  ok |-> sh[s].pc = "done"]]]
    /\ UNCHANGED <<titleEnv, storeVars, th, cmd, ops, cache, shorteners>>

\* the test that takes every name for a registered shortener
is_registered_any(handler) == TRUE

\* line 492: if handler in self.shorteners
is_registered(handler) == handler \in DOMAIN shorteners

\* lines 483-492 and 498: the lookup; a stored row is returned, an
\* unregistered handler gives None
SH_Select(s) ==
    LET k == sh[s]
        found == cache_lookup(cache, k.url, k.handler)
    IN  /\ k.pc = "select"
        /\ sh' = [sh EXCEPT ![s] =
              IF found # <<>>
              THEN [k EXCEPT !.pc = "done", !.result = Some(found[1].result)]
              ELSE IF is_registered(k.handler)
              THEN [k EXCEPT !.pc = "call"]
              ELSE [k EXCEPT !.pc = "done"]]
        /\ UNCHANGED <<titleEnv, storeVars, th, cmd, ops, cache, shorteners>>

\* lines 493-497: the shortener is called and its result stored; when it
\* raises the interaction fails and nothing is stored
SH_Insert(s) ==
    LET k == sh[s]
    IN  /\ k.pc = "call"
        /\ \E res \in ShortUrls \cup {"raise"} :
              IF res = "raise"
              THEN /\ sh' = [sh EXCEPT ![s] = [k EXCEPT !.pc = "failed",
                                                  !.invoked = TRUE]]
                   /\ cache' = cache
              ELSE /\ sh' = [sh EXCEPT ![s] = [k EXCEPT !.pc = "done",
                                                  !.invoked = TRUE,
                                                  !.result = Some(res)]]
                   /\ cache' = Append(cache, Row(k.url, lower(k.handler),
                                                 res))
        /\ UNCHANGED <<titleEnv, storeVars, th, cmd, ops, shorteners>>

\* one interaction of the pool: its statements interleave with those of the
\* interactions running in the other pool threads
runInteraction(s) == SH_Select(s) \/ SH_Insert(s)

-----------------------------------------------------------------------------
(* URLsPlugin.shorten_command, run by the thread that dispatches commands;  *)
(* the callbacks answer when the interaction it started has ended.          *)

\* lines 316-318 without the test of the last URL
no_url_known_no_last(ch, p, c) ==
    ~has_protocol(ch, p) \/ ~has_channel(ch, p, c)

\* lines 316-318: no setting for the channel, or an empty last URL
no_url_known(ch, p, c) ==
    \/ ~has_protocol(ch, p)
    \/ ~has_channel(ch, p, c)
    \/ ch[p][c].last = NoUrl

\* lines 297-303: the arguments, and the source that is not a channel
SC_Start(sources, urls) ==
    /\ Finished(cmd.pc)
    /\ ops < MaxOps
    /\ \E src \in sources, u \in urls \cup {NoUrl} :
          cmd' = IF src.kind = "channel"
                 THEN [Started(src, <<>>) EXCEPT
                          !.pc = "sc_check", !.op = "shorten", !.url = u]
                 ELSE IF u = NoUrl
                 THEN [Started(src, <<>>) EXCEPT
                          !.pc = "done", !.op = "shorten",
                          !.out = <<"usage">>]
                 ELSE [Started(src, <<>>) EXCEPT
                          !.pc = "sc_call", !.op = "shorten", !.url = u,
                          !.handler = "tinyurl"]
    /\ ops' = ops + 1
    /\ UNCHANGED <<titleEnv, storeVars, th, shortenVars>>

\* lines 316-322: the store is read before the arguments are looked at
SC_Check ==
    LET p == cmd.source.proto
        c == cmd.source.name
    IN  /\ cmd.pc = "sc_check"
        /\ cmd' = IF no_url_known(channels, p, c)
                  THEN [cmd EXCEPT !.pc = "done", !.out = <<"nobody">>]
                  ELSE IF channels[p][c].shortener = ""
                  THEN [cmd EXCEPT !.pc = "sc_fix"]
                  ELSE [cmd EXCEPT !.pc = "sc_lookup",
                                   !.handler = channels[p][c].shortener]
        /\ UNCHANGED <<titleEnv, storeVars, th, ops, shortenVars>>

\* lines 323-325 without the `with self.channels:` around them
SC_Fix_unlocked ==
    /\ cmd.pc = "sc_fix"
    /\ HasSetting(channels, cmd.source.proto, cmd.source.name)
    /\ channels' = set_shortener(channels, cmd.source.proto,
                                 cmd.source.name, "tinyurl")
    /\ cmd' = [cmd EXCEPT !.pc = "sc_lookup", !.handler = "tinyurl"]
    /\ UNCHANGED <<titleEnv, lock, th, ops, shortenVars>>

\* lines 323-326; a missing key raises KeyError and the mutex is released
SC_Fix ==
    LET p == cmd.source.proto
        c == cmd.source.name
    IN  /\ cmd.pc = "sc_fix"
        /\ lock = CmdTask
        /\ lock' = NoTask
        /\ IF HasSetting(channels, p, c)
           THEN /\ channels' = set_shortener(channels, p, c, "tinyurl")
                /\ cmd' = [cmd EXCEPT !.pc = "sc_lookup",
                                      !.handler = "tinyurl"]
           ELSE /\ channels' = channels
                /\ cmd' = [cmd EXCEPT !.pc = "crashed"]
        /\ UNCHANGED <<titleEnv, th, ops, shortenVars>>

\* lines 327-335: the shortener is looked up, then the URL is chosen
SC_Lookup ==
    LET p == cmd.source.proto
        c == cmd.source.name
    IN  /\ cmd.pc = "sc_lookup"
        /\ cmd' = IF cmd.handler \notin DOMAIN shorteners
                  THEN [cmd EXCEPT !.pc = "done", !.out = <<"not found">>]
                  ELSE IF ~HasSetting(channels, p, c)
                  THEN [cmd EXCEPT !.pc = "crashed"]
                  ELSE IF cmd.url # NoUrl
                  THEN [cmd EXCEPT !.pc = "sc_call"]
                  ELSE [cmd EXCEPT !.pc = "sc_call",
                                   !.url = channels[p][c].last]
        /\ UNCHANGED <<titleEnv, storeVars, th, ops, shortenVars>>

\* lines 304-309 and 337-342: shorten_url starts an interaction of the pool
SC_Call(s) ==
    /\ cmd.pc = "sc_call"
    /\ Finished(sh[s].pc) \/ sh[s].pc = "failed"
    /\ sh' = [sh EXCEPT ![s] =
                 [IdleShorten EXCEPT
                     !.pc = "select", !.url = cmd.url,
                     !.handler = cmd.handler,
                     !.prev = [url |-> sh[s].url, handler |-> sh[s].handler,
                               result |-> sh[s].result,
                               ok |-> sh[s].pc = "done"]]]
    /\ cmd' = [cmd EXCEPT !.pc = "sc_wait", !.called = TRUE]
    /\ UNCHANGED <<titleEnv, storeVars, th, ops, cache, shorteners>>

\* lines 284-293: _respond_shorten and _respond_shorten_fail
SC_Callback(s) ==
    /\ cmd.pc = "sc_wait"
    /\ sh[s].pc \in {"done", "failed"}
    /\ cmd' = [cmd EXCEPT !.pc = "done", !.out =
                  IF sh[s].pc = "failed" THEN <<"error shortening">>
                  ELSE IF sh[s].result = None THEN <<"unable">>
                  ELSE <<sh[s].result.val>>]
    /\ UNCHANGED <<titleEnv, storeVars, th, ops, shortenVars>>

shorten_command(s) ==
    \/ SC_Check
    \/ UC_Acquire
    \/ SC_Fix
    \/ SC_Lookup
    \/ SC_Call(s)
    \/ SC_Callback(s)
    \/ runInteraction(s)

-----------------------------------------------------------------------------
(* URLsPlugin.add_handler and add_shortener, called by other plugins.       *)
(* The result is a record: ret is "True", "False" or the exception raised,  *)
(* registry the dict after the call.                                        *)

HandlerDomains == Hostnames \cup {<<"www">>}
ShortenerNames == {"tinyurl", "isgd", "IsGd"}
ShortenerFns == {"fn", "fn2"}

NoReg == [fn |-> "", name |-> <<>>, handler |-> "", ret |-> "",
          before |-> [x \in {} |-> {}]]

\* domain.startswith("www.")
startswith_www(domain) == Len(domain) >= 2 /\ domain[1] = "www"

\* registry[key] = value
put(registry, key, value) ==
    [k \in DOMAIN registry \cup {key} |->
        IF k = key THEN value ELSE registry[k]]

\* the registration that stores the handler whether or not the key is taken
register_last_wins(registry, key, value) ==
    [ret |-> "True", registry |-> put(registry, key, value)]

\* lines 509-514 and 517-522: if key not in registry
register(registry, key, value) ==
    IF key \notin DOMAIN registry
    THEN [ret |-> "True", registry |-> put(registry, key, value)]
    ELSE [ret |-> "False", registry |-> registry]

\* the registration that takes a "www." domain like any other
add_handler_any(registry, domain, handler) ==
    register(registry, domain, handler)

\* lines 506-514
add_handler(registry, domain, handler) ==
    IF startswith_www(domain)
    THEN [ret |-> "ValueError", registry |-> registry]
    ELSE register(registry, domain, handler)

\* lines 516-522
add_shortener(registry, name, handler) == register(registry, name, handler)

AddHandler ==
    /\ \E d \in HandlerDomains, k \in HandlerKinds :
          LET r == add_handler(handlers, d, k)
          IN  /\ handlers' = r.registry
              /\ reg' = [fn |-> "add_handler", name |-> d, handler |-> k,
                         ret |-> r.ret, before |-> handlers]
    /\ UNCHANGED <<dns, web, blacklist, storeVars, th, cmd, ops, cache, sh,
                   shorteners, otherVars>>

AddShortener ==
    /\ \E n \in ShortenerNames, f \in ShortenerFns :
          LET r == add_shortener(shorteners, n, f)
          IN  /\ shorteners' = r.registry
              /\ reg' = [fn |-> "add_shortener", name |-> <<n>>,
                         handler |-> f, ret |-> r.ret, before |-> shorteners]
    /\ UNCHANGED <<dns, web, blacklist, handlers, storeVars, th, cmd, ops,
                   cache, sh, otherVars>>

-----------------------------------------------------------------------------
(* The run of the store: two message tasks and the command thread           *)

EmptyDict == [x \in {} |-> {}]

AllPublic == [h \in Hostnames |-> PublicIP]
AllOk == [u \in Urls |-> OkPage]

StoreMessages == { <<Word(<<>>, Url(HostA))>>, <<Word(<<>>, Url(HostB))>> }
StoreTargets == { ChannelTarget("irc", "#a"), ChannelTarget("irc", "#b"),
                  ChannelTarget("xmpp", "#a") }
StoreArgs == { <<"set", "off">>, <<"SET", "ON">>, <<"shortener", "IsGd">> }

-----------------------------------------------------------------------------
(* system/metrics.py: the Metrics object, the periodic task it starts and   *)
(* the submissions the task makes                                           *)

\* bound on the firings of the periodic task in one run
MaxFirings == 2

\* self.data, the file metrics.json: whether it holds key "uuid", and the
\* value under key "status", "" when the key is absent
MetricsData(uuid, status) == [uuid |-> uuid, status |-> status]

\* the files a run of the program leaves behind: none yet, a uuid obtained
\* (lines 142-143), disabled after a disable message (line 199), disabled
\* with no uuid (lines 145 and 220-221)
MetricsFiles ==
    { MetricsData(FALSE, ""), MetricsData(TRUE, "enabled"),
      MetricsData(TRUE, "disabled"), MetricsData(FALSE, "disabled") }

\* the option "metrics" of the settings, "" when it is absent
MetricsConfigs == {"", "on", "off", "destroy", "maybe"}

\* lines 107-132: self.status, "on" for True and "off" for False
metrics_status(config) == IF config = "" THEN "on" ELSE config

\* one call of submit_metrics: outcome is what the request did ("ok", a
\* result "error" reported by the server, or "raise"), err the exception
\* that left the task
NewFiring == [pc |-> "request", outcome |-> "", err |-> ""]

\* sent: the messages that reached the server; start: the file as the
\* constructor found it; started: task.start was called
NoMetrics ==
    [pc |-> "none", config |-> "", status |-> "", data |-> MetricsData(FALSE, ""),
     start |-> MetricsData(FALSE, ""), running |-> FALSE, started |-> FALSE,
     firings |-> <<>>, sent |-> <<>>]

\* the constructor that starts the task whatever is stored
starts_always(status, data, interned) == TRUE

\* lines 147-156: whether the constructor reaches task.start.  interned:
\* `self.status is "destroy"` compares identities, and holds only when the
\* configured string is the very object of the literal
starts(status, data, interned) ==
    IF status = "off" THEN data.status # "disabled"
    ELSE IF status = "destroy" /\ interned THEN data.uuid
    ELSE TRUE

\* lines 91-156: Metrics(config, manager).  got: what the request for a uuid
\* does.  task.start calls submit_metrics at once
Metrics_init ==
    /\ metrics.pc = "new"
    /\ \E got \in {"ok", "raise"}, interned \in BOOLEAN :
          LET status == metrics_status(metrics.config)
              data == metrics.data
              failed == status = "on" /\ ~data.uuid /\ got = "raise"
              d1 == IF status = "on"
                    THEN IF ~data.uuid /\ got = "ok"
                         THEN MetricsData(TRUE, "enabled") ELSE data
                    ELSE IF ~data.uuid
                         THEN [data EXCEPT !.status = "disabled"] ELSE data
              start == ~failed /\ starts(status, d1, interned)
          IN  metrics' = [metrics EXCEPT
                             !.pc = "built", !.status = status, !.data = d1,
                             !.running = start, !.started = start,
                             !.firings = IF start THEN <<NewFiring>>
                                         ELSE <<>>]
    /\ UNCHANGED <<urlsVars, mgmt, dialect>>

\* lines 105 and 156: the interval has passed and the LoopingCall, still
\* running, calls submit_metrics, which the decorator hands to the pool
LoopingCall_fire ==
    /\ metrics.pc = "built"
    /\ metrics.running
    /\ Len(metrics.firings) < MaxFirings
    /\ metrics' = [metrics EXCEPT !.firings = Append(@, NewFiring)]
    /\ UNCHANGED <<urlsVars, mgmt, dialect>>

\* what the server is sent for a status
message_for(status) ==
    CASE status = "on" -> "metrics"
      [] status = "off" -> "disable"
      [] OTHER -> "destroy"

\* lines 162-196 and 202-217: the request of the firing.  Without a stored
\* uuid self.data["uuid"] raises inside the try; a status that is none of
\* the three sends nothing
submit_metrics_request(k) ==
    LET f == metrics.firings[k]
        status == metrics.status
    IN  /\ f.pc = "request"
        /\ \E res \in {"ok", "error", "raise"} :
              LET known == status \in {"on", "off", "destroy"}
                  out == IF ~known THEN ""
                         ELSE IF ~metrics.data.uuid THEN "raise" ELSE res
              IN  metrics' = [metrics EXCEPT
                      !.firings[k] =
                          [f EXCEPT !.pc = IF status = "on" THEN "done"
                                           ELSE "finish",
                                    !.outcome = out],
                      !.sent = IF known /\ metrics.data.uuid
                               THEN Append(@, message_for(status)) ELSE @]
        /\ UNCHANGED <<urlsVars, mgmt, dialect>>

\* the firing that stops the task only after a request that did not raise
stops_after_success(status, outcome) == outcome # "raise"

\* lines 200-201, 222-223 and 226: finally: self.task.stop()
stops_after(status, outcome) == TRUE

\* lines 197-201, 218-223 and 224-226: the else and finally clauses.  del
\* self.data["uuid"] raises when another firing removed the key, and
\* LoopingCall.stop asserts that the task is running
submit_metrics_finish(k) ==
    LET f == metrics.firings[k]
        status == metrics.status
        data == metrics.data
        wrote == status \in {"off", "destroy"} /\ f.outcome # "raise"
        keyerror == wrote /\ status = "destroy" /\ ~data.uuid
        stop == stops_after(status, f.outcome)
    IN  /\ f.pc = "finish"
        /\ metrics' = [metrics EXCEPT
              !.data = IF ~wrote \/ keyerror THEN @
                       ELSE IF status = "destroy"
                       THEN MetricsData(FALSE, "disabled")
                       ELSE [@ EXCEPT !.status = "disabled"],
              !.running = IF stop THEN FALSE ELSE @,
              !.firings[k] =
                  [f EXCEPT !.pc = "done",
                            !.err = IF keyerror THEN "KeyError"
                                    ELSE IF stop /\ ~metrics.running
                                    THEN "AssertionError" ELSE ""]]
        /\ UNCHANGED <<urlsVars, mgmt, dialect>>

submit_metrics(k) == submit_metrics_request(k) \/ submit_metrics_finish(k)

-----------------------------------------------------------------------------
(* plugins/management: the commands of the management plugin                *)

ManagementCommands ==
    {"storage", "protocols", "plugins", "packages", "permissions", "users"}

\* raw_args.split(): the words of the text, whitespace left out
split(raw_args) == SelectSeq(raw_args, LAMBDA c : ~IsSpace(c))

\* a call as the command manager makes it: args is the parsed list, or None
ManagementCall(raw_args, args) == [raw_args |-> raw_args, args |-> args]

ManagementCalls ==
    { ManagementCall(<<>>, Some(<<>>)), ManagementCall(<<>>, None),
      ManagementCall(<<" ">>, None), ManagementCall(<<"nope">>, None),
      ManagementCall(<<"nope">>, Some(<<"nope">>)),
      ManagementCall(<<"HELP">>, Some(<<"HELP">>)) }

\* the lines handed to caller.respond and the page sent through the Pages
\* plugin
UsageLines(command) == << <<"Usage", command>>, <<"Operations", command>> >>
UnknownOperation(operation) == <<"Unknown operation", operation>>
HelpPage(command) == <<"help page", command>>

\* out: what the caller was sent; raised: the exception that left the handler
ManagementResult(command, args, out, raised) ==
    [command |-> command, args |-> args, out |-> out, raised |-> raised]

NoMgmt == <<>>

\* the handlers that all return after the usage text
returns_after_usage_all(command) == TRUE

\* lines 103-109, 121-126, 306-314, 471-477, 489-495 and 507-513: of the
\* six `if len(args) < 1:` blocks only that of plugins_command ends with
\* return (line 312)
returns_after_usage(command) == command = "plugins"

\* storage_command (94-110), protocols_command (112-295), plugins_command
\* (297-460), packages_command (462-478), permissions_command (480-496)
\* and users_command (498-514), for a first word that is `help` or names
\* no operation
management_command(command, call) ==
    LET args == IF call.args.isNone THEN split(call.raw_args)
                ELSE call.args.val
        usage == IF Len(args) < 1 THEN UsageLines(command) ELSE <<>>
        result(out, raised) == ManagementResult(command, args, out, raised)
    IN  IF Len(args) < 1 /\ returns_after_usage(command)
        THEN result(usage, "")
        ELSE IF Len(args) < 1
        THEN result(usage, "IndexError")
        ELSE IF command \in {"protocols", "plugins"}
        THEN IF lower(args[1]) = "help"
             THEN result(<<HelpPage(command)>>, "")
             ELSE result(<<UnknownOperation(lower(args[1]))>>, "")
        ELSE result(<<UnknownOperation(args[1])>>, "")

\* a management command is given
ManagementCommand ==
    /\ ops < MaxOps
    /\ \E command \in ManagementCommands, call \in ManagementCalls :
          mgmt' = Append(mgmt, management_command(command, call))
    /\ ops' = ops + 1
    /\ UNCHANGED <<dns, web, blacklist, handlers, channels, lock, th, cmd,
                   cache, shorteners, sh, reg, metrics, dialect>>

-----------------------------------------------------------------------------
(* plugins/dialectizer: the settings of the dialectizer plugin, the command *)
(* that sets them and the callback that rewrites the messages sent          *)

\* line 23-26: the keys of self.dialectizers
Dialectizers == {"chef", "fudd", "off", "olde"}

DialectCallers == {"command", "sent"}

IdleDialectCaller ==
    [pc |-> "idle", protocol |-> "", channel |-> "", setting |-> "",
     out |-> <<>>]

\* data: self.data, protocol -> channel -> name; lock: who is inside
\* `with self.data:`
NoDialect ==
    [data |-> EmptyDict, lock |-> NoTask,
     callers |-> [a \in DialectCallers |-> IdleDialectCaller]]

DialectFinished(pc) == pc \in {"idle", "done"}

\* lines 59-67: dialectizer_command is given by a user in a channel or in
\* private, with or without a name
dialectizer_command(sources, arglists) ==
    LET k == dialect.callers["command"]
    IN  /\ DialectFinished(k.pc)
        /\ ops < MaxOps
        /\ \E source \in sources, args \in arglists :
              dialect' = [dialect EXCEPT !.callers["command"] =
                  IF source.kind = "user"
                  THEN [IdleDialectCaller EXCEPT
                           !.pc = "done", !.out = <<"channels only">>]
                  ELSE IF ~(Len(args) > 0)
                  THEN [IdleDialectCaller EXCEPT
                           !.pc = "done", !.protocol = source.proto,
                           !.channel = source.name,
                           !.out = <<"Usage", "Available dialectizers">>]
                  ELSE [IdleDialectCaller EXCEPT
                           !.pc = "acquire", !.protocol = source.proto,
                           !.channel = source.name,
                           !.setting = args[1]]]
        /\ ops' = ops + 1
        /\ UNCHANGED <<dns, web, blacklist, handlers, channels, lock, th, cmd,
                       cache, shorteners, sh, reg, metrics, mgmt>>

\* lines 39-44: a message is being sent; the callback leaves those sent to
\* a user alone
handle_msg_sent(targets) ==
    LET k == dialect.callers["sent"]
    IN  /\ DialectFinished(k.pc)
        /\ ops < MaxOps
        /\ \E target \in targets :
              dialect' = [dialect EXCEPT !.callers["sent"] =
                  IF target.kind = "user"
                  THEN [IdleDialectCaller EXCEPT !.pc = "done"]
                  ELSE [IdleDialectCaller EXCEPT
                           !.pc = "acquire", !.protocol = target.proto,
                           !.channel = target.name]]
        /\ ops' = ops + 1
        /\ UNCHANGED <<dns, web, blacklist, handlers, channels, lock, th, cmd,
                       cache, shorteners, sh, reg, metrics, mgmt>>

\* lines 46 and 69: with self.data: entered when nobody is inside
D_Acquire(a) ==
    /\ dialect.callers[a].pc = "acquire"
    /\ dialect.lock = NoTask
    /\ dialect' = [dialect EXCEPT !.lock = a, !.callers[a].pc = "init"]
    /\ UNCHANGED <<urlsVars, metrics, mgmt>>

\* data with the setting of channel c of protocol p made v
dialect_put(data, p, c, v) ==
    [q \in DOMAIN data \cup {p} |->
        IF q # p THEN data[q]
        ELSE [d \in (IF p \in DOMAIN data THEN DOMAIN data[p] ELSE {})
                        \cup {c} |->
                 IF d = c THEN v ELSE data[p][d]]]

\* lines 47-51 and 70-74: the missing entries are made, the setting "off"
dialect_init(data, p, c) ==
    IF p \in DOMAIN data /\ c \in DOMAIN data[p] THEN data
    ELSE dialect_put(data, p, c, "off")

\* lines 46-51 and 69-74: the body of the with block, and its end
D_Init(a) ==
    LET k == dialect.callers[a]
    IN  /\ k.pc = "init"
        /\ dialect.lock = a
        /\ dialect' = [dialect EXCEPT
              !.data = dialect_init(@, k.protocol, k.channel),
              !.lock = NoTask,
              !.callers[a].pc = IF a = "command" THEN "set" ELSE "sub"]
        /\ UNCHANGED <<urlsVars, metrics, mgmt>>

\* lines 76-82: the name is looked up and, when known, stored
D_Set ==
    LET k == dialect.callers["command"]
        setting == lower(k.setting)
    IN  /\ k.pc = "set"
        /\ dialect' = [dialect EXCEPT
              !.data = IF setting \in Dialectizers
                       THEN dialect_put(@, k.protocol, k.channel, setting)
                       ELSE @,
              !.callers["command"] =
                  [k EXCEPT !.pc = "done",
                            !.out = IF setting \in Dialectizers
                                    THEN <<"Dialectizer set to", setting>>
                                    ELSE <<"Unknown dialectizer", setting>>]]
        /\ UNCHANGED <<urlsVars, metrics, mgmt>>

\* lines 53-57: the dialectizer of the channel rewrites the message
D_Sub ==
    LET k == dialect.callers["sent"]
    IN  /\ k.pc = "sub"
        /\ dialect' = [dialect EXCEPT
              !.callers["sent"] =
                  [k EXCEPT !.pc = "done",
                            !.setting = dialect.data[k.protocol][k.channel],
                            !.out = <<"sub">>]]
        /\ UNCHANGED <<urlsVars, metrics, mgmt>>

-----------------------------------------------------------------------------
(* Initial states *)

InitUrlsIdle ==
    /\ th = [t \in Threads |-> IdleTask]
    /\ cmd = IdleCmd
    /\ ops = 0
    /\ lock = NoTask

InitIdle ==
    /\ InitUrlsIdle
    /\ metrics = NoMetrics
    /\ mgmt = NoMgmt
    /\ dialect = NoDialect

InitNoShorten ==
    /\ cache = <<>>
    /\ shorteners = [n \in {"tinyurl", "isgd"} |-> "fn"]
    /\ sh = [s \in ShortenThreads |-> IdleShorten]

Init ==
    /\ dns = AllPublic
    /\ web = AllOk
    /\ blacklist = <<>>
    /\ handlers = EmptyDict
    /\ reg = NoReg
    /\ channels = EmptyDict
    /\ InitIdle
    /\ InitNoShorten

Handler(t) ==
    \/ MH_Word(t)
    \/ MH_CheckProto(t)
    \/ MH_Acquire(t)
    \/ MH_InitProto(t)
    \/ MH_CheckChan(t)
    \/ MH_InitChan(t)
    \/ MH_SetLast(t)
    \/ MH_Respond(t)

Command ==
    \/ UC_CheckProto
    \/ UC_Acquire
    \/ UC_InitProto
    \/ UC_CheckChan
    \/ UC_InitChan
    \/ UC_Dispatch
    \/ UC_WriteStatus
    \/ UC_WriteShortener

Next ==
    \/ \E t \in Threads : MH_Receive(t, StoreMessages, StoreTargets)
    \/ \E t \in Threads : Handler(t)
    \/ UC_Start(StoreTargets, StoreArgs)
    \/ Command

Spec == Init /\ [][Next]_vars


-----------------------------------------------------------------------------
(* The run of the shortener cache: concurrent and sequential interactions   *)

ShortenUrlArgs == {Url(HostA), Url(HostB)}
ShortenNames == {"tinyurl", "IsGd", "isgd", "nope"}
RaceUrlArgs == {Url(HostA)}
RaceNames == {"tinyurl", "IsGd"}

InitEnv ==
    /\ dns = AllPublic
    /\ web = AllOk
    /\ blacklist = <<>>
    /\ handlers = EmptyDict
    /\ reg = NoReg

InitShorten ==
    /\ InitEnv
    /\ channels = EmptyDict
    /\ InitIdle
    /\ cache = <<>>
    /\ shorteners \in { [n \in {"tinyurl"} |-> "fn"],
                        [n \in {"tinyurl", "IsGd"} |-> "fn"] }
    /\ sh = [s \in ShortenThreads |-> IdleShorten]

NextShorten ==
    \/ \E s \in ShortenThreads : SH_Start(s, RaceUrlArgs, RaceNames)
    \/ \E s \in ShortenThreads : runInteraction(s)

SpecShorten == InitShorten /\ [][NextShorten]_vars

NextShortenSeq ==
    \/ SH_Start("s1", ShortenUrlArgs, ShortenNames)
    \/ runInteraction("s1")

SpecShortenSeq == InitShorten /\ [][NextShortenSeq]_vars


-----------------------------------------------------------------------------
(* The run of the title resolver: one message task, messages sent to the    *)
(* bot by a user, over the name servers, web servers, blacklists and        *)
(* handler registries below                                                 *)

DnsChoices ==
    { d \in [Hostnames -> IPSamples \cup {DnsFail}] :
        /\ d[HostWwwA] \in {PublicIP, LoopbackIP, DnsFail}
        /\ d[HostB] \in {PublicIP, LoopbackIP} }

PageChoices == {RedirectTo(u) : u \in Urls} \cup {OkPage, NotFound}

TitleMessages == { <<Word(<<>>, u)>> : u \in Urls }
TitleTargets == { UserTarget("irc") }

InitTitle ==
    /\ dns \in DnsChoices
    /\ web \in [Urls -> PageChoices]
    /\ blacklist \in { <<>>, <<Pattern(HostB)>> }
    /\ handlers \in { EmptyDict, [d \in {HostA} |-> "title"] }
    /\ reg = NoReg
    /\ channels = EmptyDict
    /\ InitIdle
    /\ InitNoShorten

NextTitle ==
    \/ MH_Receive("t1", TitleMessages, TitleTargets)
    \/ MH_Word("t1")
    \/ MH_Respond("t1")

SpecTitle == InitTitle /\ [][NextTitle]_vars

\* the same run with the shipped configuration: nothing blacklisted, no
\* handler registered
InitRedirect ==
    /\ InitTitle
    /\ blacklist = <<>>
    /\ handlers = EmptyDict

SpecRedirect == InitRedirect /\ [][NextTitle]_vars


-----------------------------------------------------------------------------
(* The run of the commands alone: the dispatching thread runs one command   *)
(* after the other on a store loaded from the settings file.  No setting    *)
(* of these stores has an empty shortener, so SC_Fix has nothing to do.     *)

SampleSettings ==
    { Setting(l, st, "tinyurl") : l \in {NoUrl, Url(HostA)},
                                  st \in {"on", "off"} }

\* the dicts channel -> setting with at least one channel
ChannelDicts ==
    UNION { [cs -> SampleSettings] : cs \in (SUBSET ChannelNames) \ {{}} }

SampleStores ==
    { st \in UNION { [ps -> ChannelDicts] : ps \in SUBSET Protocols } :
        "xmpp" \in DOMAIN st =>
            st["xmpp"] = [c \in {"#b"} |-> Setting(Url(HostA), "off",
                                                   "tinyurl")] }

SeqSources == { ChannelTarget("irc", "#a"), ChannelTarget("xmpp", "#a"),
                UserTarget("irc") }
SeqArgs == StoreArgs \cup { <<"set", "maybe">>, <<"shortener", "nope">> }

InitSeq ==
    /\ InitEnv
    /\ channels \in SampleStores
    /\ InitIdle
    /\ InitNoShorten

NextSeq ==
    \/ UC_Start(SeqSources, SeqArgs)
    \/ Command
    \/ SC_Start(SeqSources, RaceUrlArgs)
    \/ SC_Check
    \/ SC_Lookup
    \/ SC_Call("s1")
    \/ SC_Callback("s1")
    \/ runInteraction("s1")

SpecSeq == InitSeq /\ [][NextSeq]_vars


-----------------------------------------------------------------------------
(* The run of the message tasks alone on a store loaded from the settings   *)
(* file: no command runs, so a status that is off stays off                 *)

InitOff ==
    /\ InitEnv
    /\ channels \in SampleStores
    /\ InitIdle
    /\ InitNoShorten

NextOff ==
    \/ \E t \in Threads : MH_Receive(t, StoreMessages, StoreTargets)
    \/ \E t \in Threads : Handler(t)

SpecOff == InitOff /\ [][NextOff]_vars

-----------------------------------------------------------------------------
(* The run of the registries: after setup, which registers tinyurl, other   *)
(* plugins register handlers and shorteners in any order                    *)

InitRegistry ==
    /\ InitEnv
    /\ channels = EmptyDict
    /\ InitIdle
    /\ cache = <<>>
    /\ shorteners = [n \in {"tinyurl"} |-> "fn"]
    /\ sh = [s \in ShortenThreads |-> IdleShorten]

NextRegistry == AddHandler \/ AddShortener

SpecRegistry == InitRegistry /\ [][NextRegistry]_vars

-----------------------------------------------------------------------------
(* The run of the title resolver over Content-Type headers: every host is   *)
(* public and every page a 200 with a title, served under one of the        *)
(* headers below                                                            *)

ContentTypeHeaders ==
    { <<"text/html">>, <<"text/html", "charset=utf-8">>, <<"Text/HTML">>,
      <<"text/plain", "charset=utf-8">> }

ContentPages ==
    { Page(200, NoUrl, ct, Some(TitleT)) : ct \in ContentTypeHeaders }

InitContent ==
    /\ dns = AllPublic
    /\ web \in [Urls -> ContentPages]
    /\ blacklist = <<>>
    /\ handlers = EmptyDict
    /\ reg = NoReg
    /\ channels = EmptyDict
    /\ InitIdle
    /\ InitNoShorten

SpecContent == InitContent /\ [][NextTitle]_vars

-----------------------------------------------------------------------------
(* The run of the URL extraction: messages of one or two words sent to the  *)
(* bot by a user, every host public and every page a 200 with a title       *)

WordSamples ==
    { <<"x">>,
      <<"http://", "a">>,
      <<"x", "http://", "a">>,
      <<"https://", "b">>,
      <<"http://", "a", "/", "x">>,
      <<"https://", "a", "/", "http://", "b">>,
      <<"http://">>,
      <<"https://">>,
      <<"HTTP://">>,
      <<"HTTP://", "a">> }

WordMessages ==
    { <<w>> : w \in WordSamples } \cup (WordSamples \X WordSamples)

NextWords ==
    \/ MH_Receive("t1", WordMessages, TitleTargets)
    \/ MH_Word("t1")
    \/ MH_Respond("t1")

SpecWords == Init /\ [][NextWords]_vars

-----------------------------------------------------------------------------
(* The run of one message task: messages sent to a channel or to the bot    *)
(* by a user, with or without a handler registered for domain a             *)

RespondTargets ==
    { ChannelTarget("irc", "#a"), ChannelTarget("irc", "#b"),
      UserTarget("irc") }

InitRespond ==
    /\ dns = AllPublic
    /\ web \in [Urls -> {OkPage, Page(200, NoUrl, HtmlType, None)}]
    /\ blacklist = <<>>
    /\ handlers \in { EmptyDict, [d \in {HostA} |-> "title"] }
    /\ reg = NoReg
    /\ channels = EmptyDict
    /\ InitIdle
    /\ InitNoShorten

NextRespond ==
    \/ MH_Receive("t1", TitleMessages, RespondTargets)
    \/ Handler("t1")

SpecRespond == InitRespond /\ [][NextRespond]_vars

\* `shorten` given by one user at a time, in channels with and without a
\* recorded URL and with a shortener that is registered, empty or unknown
ShortenStores ==
    {EmptyDict} \cup
    { [p \in {"irc"} |-> [c \in {"#a"} |-> Setting(l, "on", n)]] :
         l \in {NoUrl, Url(HostA)}, n \in {"tinyurl", "", "nope"} }

ShortenSources == StoreTargets \cup {UserTarget("irc")}

InitShortenCmd ==
    /\ InitEnv
    /\ channels \in ShortenStores
    /\ InitIdle
    /\ InitNoShorten

NextShortenCmd ==
    \/ SC_Start(ShortenSources, ShortenUrlArgs)
    \/ shorten_command("s1")

SpecShortenCmd == InitShortenCmd /\ [][NextShortenCmd]_vars

-----------------------------------------------------------------------------
(* The run of one message task under a configured blacklist, with and       *)
(* without an entry that fnmatch cannot handle before the pattern for b     *)

BlacklistChoices ==
    { <<Pattern(HostB)>>, <<BadPattern, Pattern(HostB)>> }

InitBlacklist ==
    /\ dns = AllPublic
    /\ web \in [Urls -> {OkPage, Page(200, NoUrl, HtmlType, None)}]
    /\ blacklist \in BlacklistChoices
    /\ handlers = EmptyDict
    /\ reg = NoReg
    /\ channels = EmptyDict
    /\ InitIdle
    /\ InitNoShorten

SpecBlacklist == InitBlacklist /\ [][NextRespond]_vars

-----------------------------------------------------------------------------
(* The run of one message task over the events the protocols fire: the      *)
(* types below, with a channel, a user or another object as target          *)

EventTypes == {"message", "action", "notice"}

FilterTargets ==
    { ChannelTarget("irc", "#a"), ChannelTarget("irc", "#b"),
      UserTarget("irc"), OtherTarget("irc") }

NextFilter ==
    \/ MH_Event("t1", EventTypes, TitleMessages, FilterTargets)
    \/ Handler("t1")

SpecFilter == Init /\ [][NextFilter]_vars

-----------------------------------------------------------------------------
(* The run of one message task on messages of one or two URLs sent to a     *)
(* channel, the pages having a title or none                                *)

PairMessages ==
    TitleMessages \cup
    { <<Word(<<>>, u), Word(<<>>, v)>> : u \in Urls, v \in Urls }

NextLast ==
    \/ MH_Receive("t1", PairMessages, StoreTargets)
    \/ Handler("t1")

SpecLast == InitRespond /\ [][NextLast]_vars

-----------------------------------------------------------------------------
(* The run of one message task where a server may accept the connection     *)
(* and never answer.  The thread pool runs every task it was given, so each *)
(* step of the task that can be taken is taken: weak fairness on the steps  *)
(* of the handler.                                                          *)

\* a answers or is silent, www.a answers or redirects to b, b answers or is
\* silent
SilentWebs ==
    { w \in [Urls -> {OkPage, Silent, RedirectTo(Url(HostB))}] :
        /\ w[Url(HostA)] # RedirectTo(Url(HostB))
        /\ w[Url(HostWwwA)] # Silent
        /\ w[Url(HostB)] # RedirectTo(Url(HostB)) }

InitSilent ==
    /\ dns = AllPublic
    /\ web \in SilentWebs
    /\ blacklist = <<>>
    /\ handlers = EmptyDict
    /\ reg = NoReg
    /\ channels = EmptyDict
    /\ InitIdle
    /\ InitNoShorten

SpecSilent ==
    /\ InitSilent
    /\ [][NextTitle]_vars
    /\ WF_vars(MH_Word("t1") \/ MH_Respond("t1"))

-----------------------------------------------------------------------------
(* The run of the message tasks with the commands `urls` and `shorten`, on  *)
(* an empty store and on a store whose setting has an empty shortener       *)

LockStores ==
    { EmptyDict,
      [p \in {"irc"} |-> [c \in {"#a"} |-> Setting(Url(HostA), "on", "")]] }

InitLock ==
    /\ InitEnv
    /\ channels \in LockStores
    /\ InitIdle
    /\ InitNoShorten

LockTargets == { ChannelTarget("irc", "#a"), ChannelTarget("irc", "#b") }

NextLock ==
    \/ \E t \in Threads : MH_Receive(t, StoreMessages, LockTargets)
    \/ \E t \in Threads : Handler(t)
    \/ UC_Start(LockTargets, StoreArgs)
    \/ Command
    \/ SC_Start(LockTargets, RaceUrlArgs)
    \/ SC_Check
    \/ SC_Fix
    \/ SC_Lookup
    \/ SC_Call("s1")
    \/ SC_Callback("s1")
    \/ runInteraction("s1")

SpecLock == InitLock /\ [][NextLock]_vars

-----------------------------------------------------------------------------
(* The run of one message task whose parse_title goes through its loop      *)
(* step by step while other plugins register handlers                       *)

IterateHandlers ==
    { EmptyDict, [d \in {HostA} |-> "title"], [d \in {HostB} |-> "falsy"] }

InitIterate ==
    /\ dns = AllPublic
    /\ web = AllOk
    /\ blacklist = <<>>
    /\ handlers \in IterateHandlers
    /\ reg = NoReg
    /\ channels = EmptyDict
    /\ InitIdle
    /\ InitNoShorten

\* MH_Word for the words that do not reach the loop
NextIterate ==
    \/ MH_Receive("t1", TitleMessages, TitleTargets)
    \/ ~EntersLoop("t1") /\ MH_Word("t1")
    \/ PT_Enter("t1")
    \/ PT_Next("t1")
    \/ MH_Respond("t1")
    \/ AddHandler

\* the same run with no registration
NextIterateAlone ==
    \/ MH_Receive("t1", TitleMessages, TitleTargets)
    \/ ~EntersLoop("t1") /\ MH_Word("t1")
    \/ PT_Enter("t1")
    \/ PT_Next("t1")
    \/ MH_Respond("t1")

SpecIterate == InitIterate /\ [][NextIterate]_vars
SpecIterateAlone == InitIterate /\ [][NextIterateAlone]_vars

-----------------------------------------------------------------------------
(* The run of two message tasks in the pool, where a server may accept the  *)
(* connection and never answer: the fetch of one task stays pending         *)

NextPool ==
    \/ \E t \in Threads : MH_Receive(t, TitleMessages, TitleTargets)
    \/ \E t \in Threads : MH_Word(t)
    \/ \E t \in Threads : MH_Respond(t)

SpecPool == InitSilent /\ [][NextPool]_vars

-----------------------------------------------------------------------------
(* The run of the title resolver where the registered handlers raise or     *)
(* return a falsy value                                                     *)

FailingHandlers ==
    { [d \in {HostA} |-> "falsy"], [d \in {HostA} |-> "raise"],
      [d \in {HostA, HostB} |-> IF d = HostA THEN "raise" ELSE "falsy"] }

InitHandlers ==
    /\ dns = AllPublic
    /\ web \in [Urls -> PageChoices]
    /\ blacklist \in { <<>>, <<Pattern(HostB)>> }
    /\ handlers \in FailingHandlers
    /\ reg = NoReg
    /\ channels = EmptyDict
    /\ InitIdle
    /\ InitNoShorten

SpecHandlers == InitHandlers /\ [][NextTitle]_vars

-----------------------------------------------------------------------------
(* The run of the title resolver over the <title> elements below: every     *)
(* host is public and every page a 200 of type text/html                    *)

TitleSamples ==
    { None, Some(<<>>), Some(TitleT), Some(<<" ", "\n">>),
      Some(<<" ", "T", " ", "\n", "U", "\t">>) }

InitWhitespace ==
    /\ dns = AllPublic
    /\ web \in [Urls -> { Page(200, NoUrl, HtmlType, ti) : ti \in TitleSamples }]
    /\ blacklist = <<>>
    /\ handlers = EmptyDict
    /\ reg = NoReg
    /\ channels = EmptyDict
    /\ InitIdle
    /\ InitNoShorten

SpecWhitespace == InitWhitespace /\ [][NextTitle]_vars

-----------------------------------------------------------------------------
(* The run of the Metrics object: construction over the settings and the   *)
(* stored files below, then the firings of its periodic task                *)

InitUrlsQuiet ==
    /\ InitEnv
    /\ channels = EmptyDict
    /\ InitUrlsIdle
    /\ InitNoShorten

InitMetrics ==
    /\ InitUrlsQuiet
    /\ metrics \in { [NoMetrics EXCEPT !.pc = "new", !.config = c,
                                       !.data = d, !.start = d] :
                        c \in MetricsConfigs, d \in MetricsFiles }
    /\ mgmt = NoMgmt
    /\ dialect = NoDialect

NextMetrics ==
    \/ Metrics_init
    \/ LoopingCall_fire
    \/ \E k \in 1..MaxFirings :
          k <= Len(metrics.firings) /\ submit_metrics_request(k)
    \/ \E k \in 1..MaxFirings :
          k <= Len(metrics.firings) /\ submit_metrics_finish(k)

SpecMetrics == InitMetrics /\ [][NextMetrics]_vars

-----------------------------------------------------------------------------
(* The run of the management commands, one after the other                  *)

SpecManagement == Init /\ [][ManagementCommand]_vars

-----------------------------------------------------------------------------
(* The run of the dialectizer plugin: commands given while messages are     *)
(* sent                                                                     *)

DialectSources == { ChannelTarget("irc", "#a"), ChannelTarget("irc", "#b"),
                    UserTarget("irc") }
DialectArgs == { <<>>, <<"Chef">>, <<"olde">>, <<"nope">> }

NextDialect ==
    \/ dialectizer_command(DialectSources, DialectArgs)
    \/ handle_msg_sent(DialectSources)
    \/ \E a \in DialectCallers : D_Acquire(a)
    \/ \E a \in DialectCallers : D_Init(a)
    \/ D_Set
    \/ D_Sub

SpecDialect == Init /\ [][NextDialect]_vars

-----------------------------------------------------------------------------
(* Properties *)

\* the five ranges, octet by octet
InPrivateRange(ip) ==
    \/ ip[1] = 10
    \/ ip[1] = 0
    \/ ip[1] = 172 /\ ip[2] >= 16 /\ ip[2] <= 31
    \/ ip[1] = 192 /\ ip[2] = 168
    \/ ip[1] = 127

ResolvesPrivate(h) == dns[h] # DnsFail /\ InPrivateRange(dns[h])
ResolvesPublic(h) == dns[h] # DnsFail /\ ~InPrivateRange(dns[h])

\* parse_title has returned for the URL of task t
Parsed(t) == th[t].ret.kind \notin {"", "blocked"}

\* C1: for a URL whose hostname resolves into one of the five private
\* ranges parse_title returns (None, None), sends no HTTP request and calls
\* no domain handler.
C1_PrivateHostRejected ==
    \A t \in Threads :
        (Parsed(t) /\ ResolvesPrivate(hostname(th[t].url)))
            => /\ th[t].ret = Ret(None, None)
               /\ th[t].sent = {}
               /\ th[t].called = {}

\* a private host for whose domain a handler is registered has been resolved
C1_Witness ==
    \E t \in Threads :
        /\ Parsed(t)
        /\ ResolvesPrivate(hostname(th[t].url))
        /\ dns[hostname(th[t].url)] = <<172, 31, 255, 254>>
        /\ strip_www(hostname(th[t].url)) \in DOMAIN handlers

\* the fetch of url ended with a 2xx response of a host in a private range
EndsAtPrivate(url) ==
    LET r == urlopen(url)
    IN  r.ok /\ ResolvesPrivate(hostname(r.url))

\* C2: for a URL whose initial host is public and whose redirect chain ends
\* at a host resolving to a private range parse_title returns (None, None).
C2_RedirectToPrivateRejected ==
    \A t \in Threads :
        ( /\ Parsed(t)
          /\ ResolvesPublic(hostname(th[t].url))
          /\ strip_www(hostname(th[t].url)) \notin DOMAIN handlers
          /\ EndsAtPrivate(th[t].url) )
            => th[t].ret = Ret(None, None)

\* C3: parse_title sends no HTTP request to a host that resolves to a
\* private range or whose URL is blacklisted, on any hop of a redirect chain.
C3_NoRequestToPrivateOrBlacklisted ==
    \A t \in Threads :
        \A u \in th[t].sent :
            ~ResolvesPrivate(hostname(u)) /\ ~check_blacklist(u)

\* the redirect chain of url is cut by the redirect limit
ChainTooLong(url) ==
    LET r == urlopen(url)
    IN  ~r.ok /\ r.err = "HTTPError" /\ r.page.code \in FollowedCodes

\* C4: on a URL whose redirect chain exceeds the maximum depth (a cycle
\* included) parse_title returns (None, None).
C4_LongChainReturnsNone ==
    \A t \in Threads :
        ( /\ Parsed(t)
          /\ ResolvesPublic(hostname(th[t].url))
          /\ strip_www(hostname(th[t].url)) \notin DOMAIN handlers
          /\ ChainTooLong(th[t].url) )
            => th[t].ret = Ret(None, None)

\* C5: under any interleaving of shorten_url calls table urls holds at most
\* one row for a (url, shortener) pair.
C5_AtMostOneRowPerKey ==
    \A i, j \in 1..Len(cache) :
        (cache[i].url = cache[j].url /\ cache[i].shortener = cache[j].shortener)
            => i = j

\* C6: of two shorten_url calls made one after the other with the same url
\* and the same registered shortener name, the first of which returned, the
\* second returns the same short URL without calling the shortener function
\* and the table holds exactly one row for the pair.
C6_SecondCallReturnsStored ==
    \A s \in ShortenThreads :
        LET k == sh[s]
        IN  ( /\ k.pc = "done"
              /\ k.prev.ok
              /\ k.prev.url = k.url
              /\ k.prev.handler = k.handler
              /\ k.handler \in DOMAIN shorteners )
                => /\ k.result = k.prev.result
                   /\ ~k.invoked
                   /\ RowCount(cache, k.url, lower(k.handler)) = 1

\* a second call for the pair of the first has returned, the name being one
\* whose stored form differs from the registered one
C6_Witness ==
    \E s \in ShortenThreads :
        /\ sh[s].pc = "done"
        /\ sh[s].prev.ok
        /\ sh[s].prev.url = sh[s].url
        /\ sh[s].prev.handler = sh[s].handler
        /\ sh[s].handler = "IsGd"
        /\ sh[s].handler \in DOMAIN shorteners
        /\ ~sh[s].prev.result.isNone


HasKey(ch, k) == HasSetting(ch, k[1], k[2])
KeyOf(target) == <<target.proto, target.name>>

\* task t (a message task or the command) performs its lazy initialisation
\* of the setting of its channel in this step
InitStepOf(pc, pcNext) == pc \in {"init_proto", "init_chan"} /\ pcNext # pc

\* C7: the setting of a key is initialised once: no lazy initialisation, of
\* a message task or of a command, writes over a setting the key already has
\* (and with it over the status, shortener or last another task wrote).
C7_InitialisedOnce ==
    [][ /\ \A t \in Threads :
              InitStepOf(th[t].pc, th'[t].pc)
                  => ~HasKey(channels, KeyOf(th[t].target))
        /\ InitStepOf(cmd.pc, cmd'.pc)
              => ~HasKey(channels, KeyOf(cmd.source)) ]_vars

\* C8: a key that has a setting has one in every later state.
C8_SettingNeverRemoved ==
    [][ \A k \in Keys : HasKey(channels, k) => HasKey(channels', k) ]_vars

\* a step of the command `urls set <on|off>`
SetCommandStep ==
    /\ cmd.op = "set"
    /\ ~Finished(cmd.pc)
    /\ cmd'.pc # cmd.pc

\* C9: a step of `urls set <on|off>` in channel A leaves every other key as
\* it was (no setting, or the same status, last and shortener) and, once A
\* has a setting, leaves A's last and shortener as they were.
C9_SetChangesOnlyOwnStatus ==
    [][ SetCommandStep =>
          \A k \in Keys :
              IF k = KeyOf(cmd.source)
              THEN HasKey(channels, k) =>
                      /\ HasKey(channels', k)
                      /\ channels'[k[1]][k[2]].last = channels[k[1]][k[2]].last
                      /\ channels'[k[1]][k[2]].shortener
                            = channels[k[1]][k[2]].shortener
              ELSE /\ HasKey(channels', k) <=> HasKey(channels, k)
                   /\ HasKey(channels, k) =>
                         channels'[k[1]][k[2]] = channels[k[1]][k[2]] ]_vars

\* the command that has just completed is a valid `urls set`
SetDone ==
    /\ cmd.pc = "done"
    /\ cmd.op = "set"
    /\ cmd.value \in {"on", "off"}

SameAsPrevious ==
    /\ cmd.prev.ok
    /\ cmd.prev.source = cmd.source
    /\ cmd.prev.op = cmd.op
    /\ cmd.prev.value = cmd.value

\* C10: after `urls set v` the status of the channel is v, and a second
\* `urls set v` in the same channel leaves the store as the first left it.
C10_SetIdempotent ==
    SetDone =>
        /\ HasKey(channels, KeyOf(cmd.source))
        /\ channels[cmd.source.proto][cmd.source.name].status = cmd.value
        /\ SameAsPrevious => channels = cmd.prev.store

\* `urls set off` has been applied twice in a row to a channel
C10_Witness ==
    /\ SetDone
    /\ SameAsPrevious
    /\ cmd.value = "off"


\* the status stored for the channel of target tg is st
StatusIs(tg, st) ==
    /\ tg.kind = "channel"
    /\ HasSetting(channels, tg.proto, tg.name)
    /\ channels[tg.proto][tg.name].status = st

\* C11: while the status of a channel is off (after `urls set off`, before
\* the next `urls set on`) a message with a URL sent to the channel gets no
\* title response; a task that ends in a channel whose status is on, with a
\* title, has answered.
C11_OffChannelNotAnswered ==
    \A t \in Threads :
        /\ StatusIs(th[t].target, "off") => th[t].out = <<>>
        /\ ( /\ StatusIs(th[t].target, "on")
             /\ th[t].pc = "done"
             /\ ~th[t].ret.title.isNone ) => th[t].out # <<>>


\* the resolution of url raises inside parse_title before any response is
\* read: the name of the host does not resolve, or the fetch fails (the
\* connection is refused, a name on the chain does not resolve, the terminal
\* status is not 2xx)
FetchRaises(url) ==
    \/ dns[hostname(url)] = DnsFail
    \/ /\ ResolvesPublic(hostname(url))
       /\ strip_www(hostname(url)) \notin DOMAIN handlers
       /\ ~urlopen(url).ok

\* C12: when the name resolution or the fetch raises inside parse_title,
\* parse_title returns exactly (None, None), never the text of the exception.
C12_ExceptionGivesNone ==
    \A t \in Threads :
        (Parsed(t) /\ FetchRaises(th[t].url)) => th[t].ret = Ret(None, None)

\* C13: when the fetch of the title of a message's URL fails with a network
\* failure, message_handler calls respond on neither target nor source.
C13_NetworkFailureSilent ==
    \A t \in Threads :
        (Parsed(t) /\ FetchRaises(th[t].url)) => th[t].out = <<>>

\* C14: parse_title returns a (title, domain) pair on every exit path, so
\* the unpacking in message_handler never raises and no message task ends
\* with an uncaught exception.
C14_AlwaysReturnsPair ==
    \A t \in Threads : th[t].ret.kind # "bare" /\ th[t].pc # "crashed"


\* a handler that yields a title is registered under the domain of url, the
\* "www." prefix apart, and the host of url is public
HandledBy(url, d) ==
    /\ ResolvesPublic(hostname(url))
    /\ d \in DOMAIN handlers
    /\ handlers[d] = "title"
    /\ hostname(url) \in {d, <<"www">> \o d}

\* C15: a handler registered under domain D is called by parse_title for the
\* hosts D and www.D with the URL as its argument, and its non-empty result
\* is returned as (result, None) without any HTTP request.
C15_HandlerServesDomainAndWww ==
    \A t \in Threads : \A d \in DOMAIN handlers :
        (Parsed(t) /\ HandledBy(th[t].url, d))
            => /\ th[t].ret = Ret(Some(TitleH), None)
               /\ th[t].called = {<<d, th[t].url>>}
               /\ th[t].sent = {}

\* the URL of host www.a has been resolved with a handler registered under a
C15_Witness ==
    \E t \in Threads :
        /\ Parsed(t)
        /\ hostname(th[t].url) = HostWwwA
        /\ HandledBy(th[t].url, HostA)


\* the registry r2 is r1 with the new key k mapped to v
Extends(r2, r1, k, v) ==
    /\ k \notin DOMAIN r1
    /\ DOMAIN r2 = DOMAIN r1 \cup {k}
    /\ r2[k] = v
    /\ \A j \in DOMAIN r1 : r2[j] = r1[j]

\* C16: no key of the handler registry starts with "www."; add_handler with
\* a "www." domain raises and leaves the registry as it was, add_handler for
\* a registered domain returns False and leaves the registry as it was, and
\* any other add_handler returns True and adds the key, so every key keeps
\* the first handler registered for it.
C16_HandlerRegistryKeys ==
    /\ \A d \in DOMAIN handlers : ~(Len(d) > 1 /\ Head(d) = "www")
    /\ reg.fn = "add_handler" =>
          IF Len(reg.name) > 1 /\ Head(reg.name) = "www"
          THEN reg.ret = "ValueError" /\ handlers = reg.before
          ELSE IF reg.name \in DOMAIN reg.before
          THEN reg.ret = "False" /\ handlers = reg.before
          ELSE /\ reg.ret = "True"
               /\ Extends(handlers, reg.before, reg.name, reg.handler)

\* with a handler registered under a, one has been offered for www.a
C16_Witness ==
    /\ reg.fn = "add_handler"
    /\ reg.name = HostWwwA
    /\ reg.ret = "ValueError"
    /\ HostA \in DOMAIN handlers

\* C17: the first add_shortener for a name returns True and stores the
\* function; a later one for the same name returns False, raises nothing and
\* leaves the registered function as it was.
C17_FirstShortenerWins ==
    reg.fn = "add_shortener" =>
        LET n == reg.name[1]
        IN  IF n \in DOMAIN reg.before
            THEN reg.ret = "False" /\ shorteners = reg.before
            ELSE /\ reg.ret = "True"
                 /\ Extends(shorteners, reg.before, n, reg.handler)

\* another function has been offered for the name tinyurl, registered by
\* setup
C17_Witness ==
    /\ reg.fn = "add_shortener"
    /\ reg.name = <<"tinyurl">>
    /\ reg.handler = "fn2"
    /\ shorteners["tinyurl"] = "fn"


\* the media type of a Content-Type header: the part before the first ";",
\* in lower case
MediaType(ct) == lower(Head(ct))

\* C18: a terminal response whose Content-Type, the parameters removed and
\* in lower case, is not in the allowlist gives (None, None); one whose type
\* is in the allowlist is accepted (its title is returned) whatever the
\* letter case and the parameters of the header.
C18_ContentTypeAllowlist ==
    \A t \in Threads :
        Parsed(t) =>
            LET page == web[th[t].url]
            IN  IF MediaType(page.ctype) \in content_types
                THEN th[t].ret.title = page.title
                ELSE th[t].ret = Ret(None, None)


IsScheme(tok) == lower(tok) \in {"http://", "https://"}

\* the part of the word from its first scheme to its end, <<>> when the
\* word holds no scheme
FromFirstScheme(word) ==
    LET at == {i \in 1..Len(word) : IsScheme(word[i])}
    IN  IF at = {} THEN <<>>
        ELSE SubSeq(word, CHOOSE i \in at : \A j \in at : i <= j, Len(word))

\* C19: the URL extracted from a word is the part of the word from the
\* start of its (first) scheme to the end of the word; a word that is only
\* a bare scheme is not treated as a URL: it is not resolved and nothing is
\* fetched for it.
C19_UrlIsWordFromScheme ==
    \A t \in Threads :
        LET k == th[t]
        IN  /\ k.raw = FromFirstScheme(k.word)
            /\ (Len(k.word) = 1 /\ IsScheme(k.word[1]))
                  => ~Parsed(t) /\ k.sent = {}


\* the response due for the result ret of a URL sent to target tg
Expected(tg, ret) ==
    [to |-> IF tg.kind = "channel" THEN "target" ELSE "source",
     text |-> IF ret.domain.isNone THEN ret.title.val
              ELSE <<"\"">> \o ret.title.val \o <<"\" at ">> \o ret.domain.val]

\* the task has gone past the response for the URL of its one-word message
Answered(t) == Parsed(t) /\ th[t].words = <<>>

\* C20: when parse_title yields a title, message_handler sends exactly one
\* response for the URL: "<title>" at <domain>, or the title alone when the
\* domain is None, through target.respond for a channel and source.respond
\* for a user; nothing is sent without a title.
C20_OneResponsePerTitle ==
    \A t \in Threads :
        LET k == th[t]
        IN  /\ k.out # <<>> =>
                  /\ Parsed(t)
                  /\ ~k.ret.title.isNone
                  /\ k.out = <<Expected(k.target, k.ret)>>
            /\ (Answered(t) /\ ~k.ret.title.isNone) => k.out # <<>>

\* a channel has been answered through target.respond with the bare title a
\* handler gave (the domain being None)
C20_Witness ==
    \E t \in Threads :
        /\ th[t].target.kind = "channel"
        /\ th[t].out = <<[to |-> "target", text |-> TitleH]>>

ThisChannel == channels[cmd.source.proto][cmd.source.name]

\* C21: `shorten <url>` given in a channel whose shortener is registered
\* shortens the given URL with that shortener, whether or not the channel
\* has a last URL
C21_ExplicitUrlShortened ==
    ( /\ cmd.op = "shorten"
      /\ cmd.pc = "done"
      /\ cmd.source.kind = "channel"
      /\ cmd.url # NoUrl
      /\ HasSetting(channels, cmd.source.proto, cmd.source.name)
      /\ ThisChannel.shortener \in DOMAIN shorteners )
    => ( /\ cmd.called
         /\ sh["s1"].url = cmd.url
         /\ sh["s1"].handler = ThisChannel.shortener )

\* the store when the current command started
StoreAtStart == cmd.prev.store

NoLastAtStart ==
    LET p == cmd.source.proto
        c == cmd.source.name
    IN  \/ ~HasSetting(StoreAtStart, p, c)
        \/ StoreAtStart[p][c].last = NoUrl

UnknownShortenerAtStart ==
    LET p == cmd.source.proto
        c == cmd.source.name
    IN  /\ HasSetting(StoreAtStart, p, c)
        /\ StoreAtStart[p][c].shortener # ""
        /\ StoreAtStart[p][c].shortener \notin DOMAIN shorteners

\* C22: in a channel, `shorten` without a URL where no last URL is recorded,
\* and `shorten` where the channel's shortener is not registered, send one
\* failure message, call no shortener and insert no row
C22_ShortenFailuresAnswerOnly ==
    ( /\ cmd.op = "shorten"
      /\ cmd.source.kind = "channel"
      /\ \/ cmd.url = NoUrl /\ NoLastAtStart
         \/ UnknownShortenerAtStart )
    => ( /\ ~cmd.called
         /\ sh["s1"].pc \notin {"select", "call"}
         /\ cmd.pc \in {"sc_check", "sc_lookup", "done"}
         /\ cmd.pc = "done" =>
               cmd.out \in {<<"nobody">>, <<"not found">>} )

C22_Witness ==
    /\ cmd.op = "shorten"
    /\ cmd.out = <<"not found">>
    /\ UnknownShortenerAtStart
    /\ ops = 2

ShortenerUnchanged ==
    LET p == cmd.source.proto
        c == cmd.source.name
    IN  /\ HasSetting(channels, p, c)
        /\ ThisChannel.shortener =
              IF HasSetting(StoreAtStart, p, c)
              THEN StoreAtStart[p][c].shortener
              ELSE "tinyurl"

\* C23: `urls shortener <name>` with a name that is not registered answers
\* "unknown shortener" and leaves the channel's shortener as it was; after
\* any sequence of commands every setting's shortener is "tinyurl" or a
\* registered name
C23_ShortenerAlwaysRegistered ==
    /\ \A p \in DOMAIN channels : \A c \in DOMAIN channels[p] :
          channels[p][c].shortener \in {"tinyurl"} \cup DOMAIN shorteners
    /\ ( /\ cmd.op = "shortener"
         /\ cmd.pc = "done"
         /\ lower(cmd.value) \notin DOMAIN shorteners )
       => ( cmd.out = <<"unknown shortener">> /\ ShortenerUnchanged )

C23_Witness ==
    /\ cmd.op = "shortener"
    /\ cmd.value = "nope"
    /\ cmd.out = <<"unknown shortener">>
    /\ cmd.prev.op = "shortener"
    /\ cmd.prev.ok
    /\ ThisChannel.shortener = "isgd"

\* the lookup of call s finds no row and the name is not registered
UnregisteredMiss(s) ==
    /\ sh[s].pc = "select"
    /\ sh[s].handler \notin DOMAIN shorteners
    /\ select_rows(cache, sh[s].url, lower(sh[s].handler)) = <<>>

\* C24: shorten_url for a (url, shortener) with no row, the name not being
\* registered, returns None, calls no shortener function and inserts no row
C24_UnregisteredMissReturnsNone ==
    [][ \A s \in ShortenThreads :
           (UnregisteredMiss(s) /\ sh'[s] # sh[s])
              => /\ sh'[s].pc = "done"
                 /\ sh'[s].result = None
                 /\ ~sh'[s].invoked
                 /\ cache' = cache ]_vars

C24_Witness ==
    /\ sh["s1"].pc = "done"
    /\ sh["s1"].handler = "isgd"
    /\ sh["s1"].handler \notin DOMAIN shorteners
    /\ sh["s1"].result = None
    /\ cache # <<>>

\* some pattern of the blacklist matches the URL
Blacklisted(url) ==
    \E i \in 1..Len(blacklist) :
        ~blacklist[i].bad /\ Glob(hostname(url), blacklist[i].host)

\* task t is about to examine a word that holds a URL
AtUrlWord(t) ==
    /\ th[t].pc = "word"
    /\ th[t].words # <<>>
    /\ extract_url(Head(th[t].words)) \notin BareSchemes \cup {<<>>}

WordUrl(t) == urlparse(extract_url(Head(th[t].words)))

\* the task ends there: nothing resolved, fetched, caught, stored or answered
Dropped(t) ==
    /\ th'[t].pc = "done"
    /\ th'[t].ret = NoRet
    /\ th'[t].sent = {}
    /\ th'[t].caught = th[t].caught
    /\ th'[t].out = th[t].out
    /\ channels' = channels

\* C25: a URL of a message that matches a pattern of the blacklist is not
\* resolved or fetched, changes no setting and gets no response
C25_BlacklistedUrlDropped ==
    [][ \A t \in Threads :
           (AtUrlWord(t) /\ Blacklisted(WordUrl(t)) /\ th'[t] # th[t])
              => Dropped(t) ]_vars

\* the same for the URLs check_blacklist answers True for
BlacklistHitDropped ==
    [][ \A t \in Threads :
           (AtUrlWord(t) /\ check_blacklist(WordUrl(t)) /\ th'[t] # th[t])
              => Dropped(t) ]_vars

\* the handler was called for the event of task t
HandlerCalled(t) == th[t].pc \notin {"idle", "filtered"}

\* C27: the message handler is called only for events of type "message"
\* whose target is a channel or a user
C27_OnlyMessagesToChannelOrUser ==
    \A t \in Threads :
        HandlerCalled(t) =>
            /\ th[t].etype = "message"
            /\ th[t].target.kind \in {"channel", "user"}

\* the positions of the words of msg that hold a URL the blacklist lets pass
UrlWords(msg) ==
    { i \in 1..Len(msg) :
        /\ extract_url(msg[i]) \notin BareSchemes \cup {<<>>}
        /\ ~Blacklisted(urlparse(extract_url(msg[i]))) }

Max(S) == CHOOSE i \in S : \A j \in S : j <= i

LastUrlOf(msg) == urlparse(extract_url(msg[Max(UrlWords(msg))]))

\* C26: once the task of a message sent to a channel has finished, the
\* channel has a setting and its last URL is the last URL of the message
\* that the blacklist lets pass, whatever the outcome of the fetches
C26_LastUrlRecorded ==
    \A t \in Threads :
        LET k == th[t]
        IN  ( /\ k.pc \in {"done", "crashed"}
              /\ k.target.kind = "channel"
              /\ UrlWords(k.msg) # {} )
            => /\ HasSetting(channels, k.target.proto, k.target.name)
               /\ channels[k.target.proto][k.target.name].last
                     = LastUrlOf(k.msg)

\* C28: every title-resolution task terminates, also when the server never
\* answers: the fetch is given up after a bounded time
C28_TaskTerminates ==
    \A t \in Threads : (th[t].pc = "word") ~> Finished(th[t].pc)

\* the task that holds the store's mutex is inside a `with self.channels:`
HolderInside ==
    /\ \A t \in Threads :
          lock = t => th[t].pc \in {"init_proto", "init_chan", "set_last"}
    /\ lock = CmdTask =>
          cmd.pc \in {"init_proto", "init_chan", "write_status",
                      "write_shortener", "sc_fix"}

\* the task that holds the mutex takes this step
HolderSteps ==
    /\ lock # NoTask
    /\ \A t \in Threads : lock = t => th'[t] # th[t]
    /\ lock = CmdTask => cmd' # cmd

\* C29: every write to the settings store is made by the task that holds
\* the store's mutex; the mutex is taken only when free, has one holder at a
\* time and is released when the holder leaves its block, on every path
C29_WritesUnderLock ==
    /\ [] HolderInside
    /\ [][ /\ channels' # channels => HolderSteps /\ lock' = NoTask
           /\ (lock' # lock /\ lock' # NoTask) => lock = NoTask ]_vars

C29_Witness ==
    /\ lock = "t1"
    /\ th["t1"].pc = "set_last"
    /\ cmd.pc = "sc_fix"

\* C30: a registration made while parse_title looks up its handler never
\* makes the lookup fail, the loop over the registry included
C30_RegistrationNeverFailsLookup ==
    \A t \in Threads :
        Parsed(t) => th[t].ret.title # Str("RuntimeError")

\* taken step by step with no registration, parse_title returns what the
\* function of the model returns
LoopAgrees ==
    \A t \in Threads :
        (th[t].pc = "respond") =>
            LET r == parse_title(th[t].url, TRUE)
            IN  /\ th[t].ret = r.ret
                /\ th[t].sent = r.sent
                /\ th[t].called = r.called

HandlerFails(url) ==
    LET d == strip_www(hostname(url))
    IN  d \in DOMAIN handlers /\ handlers[d] \in {"falsy", "raise"}

\* C32: when the handler of the domain raises or returns a falsy value,
\* parse_title returns what the generic fetch, content-type check and title
\* extraction return
C32_FailingHandlerFallsThrough ==
    \A t \in Threads :
        (Parsed(t) /\ HandlerFails(th[t].url)) =>
            LET generic == parse_title(th[t].url, FALSE)
            IN  /\ th[t].ret = generic.ret
                /\ th[t].sent = generic.sent
                /\ <<strip_www(hostname(th[t].url)), th[t].url>>
                      \in th[t].called

\* a title was fetched for a URL whose handler raises
C32_Witness ==
    \E t \in Threads :
        /\ Parsed(t)
        /\ HandlerFails(th[t].url)
        /\ handlers[strip_www(hostname(th[t].url))] = "raise"
        /\ hostname(th[t].url) = HostWwwA
        /\ th[t].ret = Ret(Some(TitleT), Some(HostA))

\* C33: check_blacklist answers True exactly for the URLs that some pattern
\* of the list matches, a pattern whose matching raises counting as one that
\* does not match: a URL of a message is resolved exactly when no pattern
\* matches it
C33_BlacklistMatchesAnyPattern ==
    \A t \in Threads :
        th[t].raw \notin BareSchemes \cup {<<>>} =>
            (Parsed(t) <=> ~Blacklisted(urlparse(th[t].raw)))

\* s with its ends trimmed and every run of whitespace made one space
RECURSIVE Normal(_, _, _)
Normal(s, started, pending) ==
    IF s = <<>> THEN <<>>
    ELSE IF IsSpace(Head(s)) THEN Normal(Tail(s), started, started)
    ELSE (IF pending THEN <<" ">> ELSE <<>>) \o <<Head(s)>>
            \o Normal(Tail(s), TRUE, FALSE)

\* C34: for a page of an allowed type parse_title returns the text of the
\* title trimmed and with its runs of whitespace collapsed, and (None, None)
\* when there is no title element or the text is empty once trimmed; the
\* title returned is never the empty string
C34_TitleNormalised ==
    \A t \in Threads :
        Parsed(t) =>
            LET title == web[Url(hostname(th[t].url))].title
                domain == strip_www(hostname(th[t].url))
            IN  /\ th[t].ret.title # Some(<<>>)
                /\ IF title.isNone \/ Normal(title.val, FALSE, FALSE) = <<>>
                   THEN th[t].ret = Ret(None, None)
                   ELSE th[t].ret =
                           Ret(Some(Normal(title.val, FALSE, FALSE)),
                               Some(domain))

\* the same for the pages whose title holds more than whitespace
TitleWithTextNormalised ==
    \A t \in Threads :
        LET title == web[Url(hostname(th[t].url))].title
        IN  ( /\ Parsed(t)
              /\ ~title.isNone
              /\ Normal(title.val, FALSE, FALSE) # <<>> )
            => th[t].ret = Ret(Some(Normal(title.val, FALSE, FALSE)),
                               Some(strip_www(hostname(th[t].url))))

\* C35: when perm_handler.check refuses both the sender and the default
\* group, message_handler returns at once: the step that handles the event
\* leaves the store, the lock and the catcher alone, the task is over with no
\* word examined, no URL checked or fetched and no response, and its next
\* step is the handling of another event
C35_DeniedDoesNothing ==
    [][\A t \in Threads :
          /\ (th'[t] # th[t] /\ th'[t].denied) =>
                /\ th'[t] = [IdleTask EXCEPT !.pc = "done",
                                             !.etype = th'[t].etype,
                                             !.target = th'[t].target,
                                             !.denied = TRUE]
                /\ UNCHANGED <<channels, lock, cache, handlers, shorteners>>
          /\ (th'[t] # th[t] /\ th[t].denied) =>
                /\ th'[t].word = <<>> /\ th'[t].out = <<>>
                /\ th'[t].sent = {} /\ th'[t].called = {}
                /\ th'[t].caught = {}]_vars

\* a message with a URL in a channel whose last URL is recorded is refused
C35_Witness ==
    /\ th["t1"].denied
    /\ th["t1"].pc = "done"
    /\ th["t1"].target = ChannelTarget("irc", "#a")
    /\ "irc" \in DOMAIN channels
    /\ "#a" \in DOMAIN channels["irc"]
    /\ channels["irc"]["#a"].last = Url(HostA)

\* C36: a call of shorten_url(url, N) that inserts or reads a row leaves or
\* finds that row under the name N itself, the name the registry was asked
\* for, so that names differing in letter case never share a row
C36_RowKeyedByGivenName ==
    \A s \in ShortenThreads :
        (sh[s].pc = "done" /\ ~sh[s].result.isNone) =>
            \E i \in 1..Len(cache) :
                cache[i] = Row(sh[s].url, sh[s].handler, sh[s].result.val)

\* the same for the names that are their own lower case
LowerNameRowKeyed ==
    \A s \in ShortenThreads :
        ( /\ sh[s].pc = "done"
          /\ ~sh[s].result.isNone
          /\ lower(sh[s].handler) = sh[s].handler
          /\ \A i \in 1..Len(cache) : cache[i].shortener \in DOMAIN shorteners )
        => \E i \in 1..Len(cache) :
              cache[i] = Row(sh[s].url, sh[s].handler, sh[s].result.val)


\* firing k of the periodic task ends in this step
FiringEnds(k) ==
    /\ k <= Len(metrics.firings)
    /\ metrics.firings[k].pc # "done"
    /\ metrics'.firings[k].pc = "done"

\* C37: a firing of submit_metrics under status off or "destroy" leaves the
\* periodic task stopped, whether its request raised or not; the stored
\* data change only at the end of such a firing whose request raised
\* nothing, the status becoming "disabled" and, for destroy, the uuid being
\* removed; and under status on a started task stays running
C37_SubmitStopsTask ==
    [][/\ \A k \in 1..MaxFirings :
             (FiringEnds(k) /\ metrics.status \in {"off", "destroy"}) =>
                /\ ~metrics'.running
                /\ metrics.firings[k].outcome = "raise" =>
                      metrics'.data = metrics.data
       /\ (metrics.pc = "built" /\ metrics'.data # metrics.data) =>
             \E k \in 1..MaxFirings :
                /\ FiringEnds(k)
                /\ metrics.status \in {"off", "destroy"}
                /\ metrics.firings[k].outcome # "raise"
                /\ metrics'.data.status = "disabled"
                /\ metrics.status = "destroy" => ~metrics'.data.uuid
       /\ (metrics'.status = "on" /\ metrics'.started) => metrics'.running
      ]_vars

\* under status off a request raised: the task is stopped and the file
\* still says "enabled"
C37_Witness ==
    /\ metrics.status = "off"
    /\ Len(metrics.firings) >= 1
    /\ metrics.firings[1].pc = "done"
    /\ metrics.firings[1].outcome = "raise"
    /\ ~metrics.running
    /\ metrics.data = MetricsData(TRUE, "enabled")


OffAndDisabledStaysIdle ==
    /\ metrics.pc = "built"
    /\ metrics.config = "off"
    /\ metrics.start = MetricsData(TRUE, "disabled")
    /\ ~metrics.started


\* C39: a management command given no argument answers with its usage text
\* and returns: nothing else is sent and no exception leaves the handler
C39_EmptyArgsUsageOnly ==
    \A i \in 1..Len(mgmt) :
        mgmt[i].args = <<>> =>
            /\ mgmt[i].out = UsageLines(mgmt[i].command)
            /\ mgmt[i].raised = ""

\* the same for the command `plugins` alone, and the usage text is sent by
\* all six
PluginsEmptyArgsUsageOnly ==
    \A i \in 1..Len(mgmt) :
        mgmt[i].args = <<>> =>
            /\ mgmt[i].out = UsageLines(mgmt[i].command)
            /\ mgmt[i].command = "plugins" => mgmt[i].raised = ""


\* the settings stored in the file
StoredSettings(data) ==
    UNION { { data[p][c] : c \in DOMAIN data[p] } : p \in DOMAIN data }

\* C40: every stored setting of the dialectizer plugin is a key of the
\* dialectizers table, a command with an unknown name leaves the stored
\* settings as the initialisation to "off" made them, and every step that
\* writes the settings is taken by the caller inside `with self.data:`
C40_SettingsKnownAndWrittenLocked ==
    [][/\ StoredSettings(dialect'.data) \subseteq Dialectizers
       /\ \A a \in DialectCallers :
             ( /\ dialect'.callers[a] # dialect.callers[a]
               /\ dialect'.data # dialect.data ) => dialect.lock = a
       /\ ( /\ dialect.callers["command"].pc = "set"
            /\ dialect'.callers["command"].pc = "done"
            /\ lower(dialect.callers["command"].setting) \notin Dialectizers )
          => dialect'.data = dialect.data
      ]_vars

\* the same without the requirement on the mutex
SettingsKnown ==
    [][/\ StoredSettings(dialect'.data) \subseteq Dialectizers
       /\ ( /\ dialect.callers["command"].pc = "set"
            /\ dialect'.callers["command"].pc = "done"
            /\ lower(dialect.callers["command"].setting) \notin Dialectizers )
          => dialect'.data = dialect.data
      ]_vars

====
